---- MODULE Spec2Model ----
(***************************************************************************)
(* A model of the low-code resource compiler: the file-system helpers,     *)
(* the endpoint, table, route, template and layout synthesizers, the       *)
(* migration runner and the ingress dispatcher.                            *)
(*                                                                         *)
(* Text that the code inspects character by character (paths, table and    *)
(* template names) is a sequence of one-character strings.  Keywords drawn *)
(* from a closed enumeration (methods, actions, column types) are plain    *)
(* strings.  A file-system path is the sequence of its segments below the  *)
(* project root (process.cwd()).  Generated file bodies are records that   *)
(* keep every payload-dependent part of the emitted text.                  *)
(***************************************************************************)
EXTENDS Integers, Sequences, FiniteSets, TLC

VARIABLES
    fs,        \* the project tree: [files : path -> body, dirs : set of paths]
    storage,   \* names of the tables that exist in sqlite.db
    clock,     \* what Date.now() returns
    last,      \* the operation that ran last, its steps and its result
    hist,      \* history kept for the properties (never read by the program)
    inflight   \* the calls that run concurrently: per caller, where it is

vars == <<fs, storage, clock, last, hist, inflight>>

---------------------------------------------------------------------------
(* Bounds of the model.                                                    *)

\* Date.now() ranges over 0..MaxClock.
MaxClock == 1
\* At most MaxCallers calls run concurrently.
MaxCallers == 2
\* The ingress is followed for MaxRequests requests.
MaxRequests == 2

---------------------------------------------------------------------------
(* Characters and strings.                                                 *)

Digits == {"0", "1", "2", "3", "4", "5", "6", "7", "8", "9"}
Lower == {"a", "b", "c", "d", "e", "f", "g", "h", "i", "j", "k", "l", "m",
          "n", "o", "p", "q", "r", "s", "t", "u", "v", "w", "x", "y", "z"}
Upper == {"A", "B", "C", "D", "E", "F", "G", "H", "I", "J", "K", "L", "M",
          "N", "O", "P", "Q", "R", "S", "T", "U", "V", "W", "X", "Y", "Z"}

\* The characters of the model in UTF-16 code-unit order (what
\* Array.prototype.sort compares).
CharOrder ==
    <<" ", "-", ".", "/", "0", "1", "2", "3", "4", "5", "6", "7", "8", "9",
      ":", "A", "B", "C", "D", "E", "F", "G", "H", "I", "J", "K", "L", "M",
      "N", "O", "P", "Q", "R", "S", "T", "U", "V", "W", "X", "Y", "Z",
      "[", "]", "_",
      "a", "b", "c", "d", "e", "f", "g", "h", "i", "j", "k", "l", "m",
      "n", "o", "p", "q", "r", "s", "t", "u", "v", "w", "x", "y", "z">>

Code(c) == CHOOSE i \in 1..Len(CharOrder) : CharOrder[i] = c

StartsWith(s, p) == Len(s) >= Len(p) /\ SubSeq(s, 1, Len(p)) = p
EndsWith(s, p) == Len(s) >= Len(p) /\ SubSeq(s, Len(s) - Len(p) + 1, Len(s)) = p
Drop(s, n) == SubSeq(s, n + 1, Len(s))
DropLast(s, n) == SubSeq(s, 1, Len(s) - n)

\* a < b for Array.prototype.sort's default comparison
RECURSIVE StrLess(_, _)
StrLess(a, b) ==
    IF b = <<>> THEN FALSE
    ELSE IF a = <<>> THEN TRUE
    ELSE IF a[1] # b[1] THEN Code(a[1]) < Code(b[1])
    ELSE StrLess(Tail(a), Tail(b))

\* files.sort(): the strings of S in ascending order
RECURSIVE SortStrs(_)
SortStrs(S) ==
    IF S = {} THEN <<>>
    ELSE LET least == CHOOSE a \in S : \A b \in S \ {a} : StrLess(a, b)
         IN  <<least>> \o SortStrs(S \ {least})

\* String.prototype.split(c)
RECURSIVE Split(_, _)
Split(s, c) ==
    IF \A i \in 1..Len(s) : s[i] # c THEN <<s>>
    ELSE LET i == CHOOSE j \in 1..Len(s) :
                      s[j] = c /\ \A k \in 1..(j - 1) : s[k] # c
         IN  <<SubSeq(s, 1, i - 1)>> \o Split(Drop(s, i), c)

\* Array.prototype.filter
Filter(seq, Keep(_)) == SelectSeq(seq, Keep)

Range(seq) == {seq[i] : i \in 1..Len(seq)}

\* `${n}` for a small natural number
RECURSIVE NatToStr(_)
NatToStr(n) ==
    LET digit == CharOrder[5 + (n % 10)]
    IN  IF n < 10 THEN <<digit>> ELSE NatToStr(n \div 10) \o <<digit>>

\* String.prototype.trim
RECURSIVE Trim(_)
Trim(s) ==
    IF s # <<>> /\ s[1] = " " THEN Trim(Tail(s))
    ELSE IF s # <<>> /\ s[Len(s)] = " " THEN Trim(DropLast(s, 1))
    ELSE s

---------------------------------------------------------------------------
(* Paths: node:path's join and dirname, on paths below the project root.   *)

str_dotdot == <<".", ".">>
str_dot == <<".">>

\* path.normalize on a list of segments: "" and "." vanish, ".." removes the
\* segment before it (and stays when there is none: a path above the root).
RECURSIVE NormalizeSegs(_, _)
NormalizeSegs(done, todo) ==
    IF todo = <<>> THEN done
    ELSE LET s == Head(todo)
         IN  IF s = <<>> \/ s = str_dot THEN NormalizeSegs(done, Tail(todo))
             ELSE IF s = str_dotdot /\ done # <<>> /\ done[Len(done)] # str_dotdot
                  THEN NormalizeSegs(DropLast(done, 1), Tail(todo))
             ELSE NormalizeSegs(Append(done, s), Tail(todo))

\* the segments of the strings of `parts`, in order
RECURSIVE SplitAll(_)
SplitAll(parts) ==
    IF parts = <<>> THEN <<>> ELSE Split(Head(parts), "/") \o SplitAll(Tail(parts))

\* path.join(base, ...parts), base a path and parts strings
pathJoin(base, parts) == NormalizeSegs(<<>>, base \o SplitAll(parts))

\* path.dirname
pathDirname(p) == IF p = <<>> THEN <<>> ELSE DropLast(p, 1)

IsPrefix(d, p) == Len(d) <= Len(p) /\ SubSeq(p, 1, Len(d)) = d
Prefixes(p) == {SubSeq(p, 1, n) : n \in 0..Len(p)}

-------------------------------------------------------------------------------------------------------------------------------------------------
(* The state an operation works on, threaded through its steps:            *)
(*   fs, storage   the tree and the database as the steps leave them       *)
(*   now           Date.now() during the operation                         *)
(*   trace         the steps performed so far, in order, each with the     *)
(*                 error it threw (NoErr when it succeeded)                *)
(*   err           NoErr, or the error thrown (later steps are skipped)    *)
(*   io            the number of steps made so far that can throw          *)
(*   env           what the world outside does to this operation: the      *)
(*                 env.at-th throwing step fails (0: none does)            *)
(*   calls         the handler functions entered, in order                 *)
(*   result        the value returned, when the operation returned         *)

NoErr == "none"
Failed(m) == m.err # NoErr
Faulty(m) == m.io + 1 = m.env.at
Event(op, path, err) == [op |-> op, path |-> path, err |-> err]

\* the step `op` on `path` ran: it threw err and left the tree as `tree`
Did(m, op, path, err, tree) ==
    [m EXCEPT !.trace = Append(@, Event(op, path, err)),
              !.io = @ + 1, !.err = err, !.fs = tree]

NoFault == [at |-> 0]
NoResult == [text |-> "", subject |-> <<>>]
Start(env) ==
    [fs |-> fs, storage |-> storage, now |-> clock, trace |-> <<>>,
     err |-> NoErr, io |-> 0, env |-> env, calls |-> <<>>, result |-> NoResult]

\* the function `name` was entered
Called(m, name) == IF Failed(m) THEN m ELSE [m EXCEPT !.calls = Append(@, name)]
\* return { ok: true, message: `... ${subject} text` }, reached when no step threw
Returns(m, text, subject) ==
    IF Failed(m) THEN m ELSE [m EXCEPT !.result = [text |-> text, subject |-> subject]]

\* what can happen to an operation whose undisturbed run is m: nothing, or
\* any one of its throwing steps fails
Envs(m) == {[at |-> k] : k \in 0..m.io}

HasFile(tree, p) == p \in DOMAIN tree.files
HasDir(tree, p) == p \in tree.dirs
WithDirs(tree, dirPath) == [tree EXCEPT !.dirs = @ \cup Prefixes(dirPath)]
UnderFile(tree, dirPath) == \E q \in Prefixes(dirPath) : HasFile(tree, q)

\* utils/fs.ts ensureDir: fs.mkdir(dirPath, {recursive: true})
ensureDir(m, dirPath) ==
    IF Failed(m) THEN m
    ELSE IF Faulty(m) THEN Did(m, "ensureDir", dirPath, "EIO", m.fs)
    ELSE IF UnderFile(m.fs, dirPath) THEN Did(m, "ensureDir", dirPath, "EEXIST", m.fs)
    ELSE Did(m, "ensureDir", dirPath, NoErr, WithDirs(m.fs, dirPath))

\* writeTextFile with the slip of appending to a file that exists
writeTextFile_appends(m, filePath, content) ==
    LET parent == pathDirname(filePath)
        made == WithDirs(m.fs, parent)
        written == IF HasFile(m.fs, filePath)
                   THEN [kind |-> "appended", to |-> m.fs.files[filePath], text |-> content]
                   ELSE content
    IN  IF Failed(m) THEN m
        ELSE IF Faulty(m) THEN Did(m, "writeTextFile", filePath, "EIO", m.fs)
        ELSE IF UnderFile(m.fs, parent)
             THEN Did(m, "writeTextFile", filePath, "EEXIST", m.fs)
        ELSE IF HasDir(m.fs, filePath)
             THEN Did(m, "writeTextFile", filePath, "EISDIR", made)
        ELSE Did(m, "writeTextFile", filePath, NoErr,
                 [made EXCEPT !.files = (filePath :> written) @@ @])

\* utils/fs.ts writeTextFile: ensureDir(dirname) then fs.writeFile
writeTextFile(m, filePath, content) ==
    LET parent == pathDirname(filePath)
        made == WithDirs(m.fs, parent)
    IN  IF Failed(m) THEN m
        ELSE IF Faulty(m) THEN Did(m, "writeTextFile", filePath, "EIO", m.fs)
        ELSE IF UnderFile(m.fs, parent)
             THEN Did(m, "writeTextFile", filePath, "EEXIST", m.fs)
        ELSE IF HasDir(m.fs, filePath)
             THEN Did(m, "writeTextFile", filePath, "EISDIR", made)
        ELSE Did(m, "writeTextFile", filePath, NoErr,
                 [made EXCEPT !.files = (filePath :> content) @@ @])

\* utils/fs.ts fileExists: fs.access succeeds on files and directories
fileExists(tree, filePath) == HasFile(tree, filePath) \/ HasDir(tree, filePath)

\* the tree without the entry p and everything below it
Without(tree, p) ==
    [files |-> [q \in {r \in DOMAIN tree.files : ~IsPrefix(p, r)} |-> tree.files[q]],
     dirs  |-> {d \in tree.dirs : ~IsPrefix(p, d)}]

\* utils/fs.ts removeFile: fs.rm(recursive, force); an error is logged, not
\* thrown, and removing what the program itself wrote does not fail
removeFile(m, filePath) ==
    IF Failed(m) THEN m
    ELSE [m EXCEPT !.trace = Append(@, Event("removeFile", filePath, NoErr)),
                   !.fs = Without(@, filePath)]

\* the entry at src and everything below it, re-rooted at dest
Moved(tree, src, dest) ==
    LET under == {q \in DOMAIN tree.files : IsPrefix(src, q)}
        to(q) == dest \o Drop(q, Len(src))
        rest == Without(tree, src)
    IN  [files |-> [q \in {to(r) : r \in under} |->
                       tree.files[CHOOSE r \in under : to(r) = q]] @@ rest.files,
         dirs  |-> rest.dirs \cup {to(d) : d \in {e \in tree.dirs : IsPrefix(src, e)}}]

\* fs.rename(src, dest) replaces a file at dest; it fails when src is
\* missing, when dest lies inside src, and when a directory and a file (or a
\* non-empty directory) would replace one another
renameError(tree, src, dest) ==
    IF ~fileExists(tree, src) THEN "ENOENT"
    ELSE IF HasDir(tree, src) /\ IsPrefix(src, dest) THEN "EINVAL"
    ELSE IF HasDir(tree, src) /\ HasFile(tree, dest) THEN "ENOTDIR"
    ELSE IF HasDir(tree, dest) /\ HasFile(tree, src) THEN "EISDIR"
    ELSE IF HasDir(tree, dest) /\ \E q \in DOMAIN tree.files \cup tree.dirs :
                                      q # dest /\ IsPrefix(dest, q)
         THEN "ENOTEMPTY"
    ELSE NoErr

\* utils/fs.ts moveFile: ensureDir(dirname(dest)) then fs.rename(src, dest)
moveFile(m, src, dest) ==
    LET parent == pathDirname(dest)
        made == WithDirs(m.fs, parent)
    IN  IF Failed(m) THEN m
        ELSE IF Faulty(m) THEN Did(m, "moveFile", src, "EIO", m.fs)
        ELSE IF UnderFile(m.fs, parent) THEN Did(m, "moveFile", src, "EEXIST", m.fs)
        ELSE IF renameError(made, src, dest) # NoErr
             THEN Did(m, "moveFile", src, renameError(made, src, dest), made)
        ELSE Did(m, "moveFile", src, NoErr, Moved(Without(made, dest), src, dest))

\* utils/fs.ts listFiles: fs.readdir, the names directly below dir ([] on error)
listFiles(tree, dir) ==
    {q[Len(dir) + 1] : q \in {r \in DOMAIN tree.files \cup tree.dirs :
                                 IsPrefix(dir, r) /\ Len(r) > Len(dir)}}

---------------------------------------------------------------------------
(* JavaScript objects keep their string keys in insertion order; a         *)
(* manifest is a sequence of [k, v] entries with distinct keys.            *)

ObjHas(obj, k) == \E i \in 1..Len(obj) : obj[i].k = k
ObjGet(obj, k) == obj[CHOOSE i \in 1..Len(obj) : obj[i].k = k].v
\* obj[k] = v
ObjSet(obj, k, v) ==
    IF ObjHas(obj, k)
    THEN [i \in 1..Len(obj) |-> IF obj[i].k = k THEN [k |-> k, v |-> v] ELSE obj[i]]
    ELSE Append(obj, [k |-> k, v |-> v])
\* delete obj[k]
ObjDel(obj, k) == LET other(e) == e.k # k IN Filter(obj, other)
ObjKeys(obj) == [i \in 1..Len(obj) |-> obj[i].k]
ObjValues(obj) == [i \in 1..Len(obj) |-> obj[i].v]

\* JSON.stringify(value, null, 2) as a file body, and JSON.parse of a body
JSONstringify(value) == [kind |-> "json", value |-> value]
Parses(tree, p) == HasFile(tree, p) /\ tree.files[p].kind = "json"
\* JSON.parse of the body gives null: the file holds the text null
ParsesToNull(tree, p) == HasFile(tree, p) /\ tree.files[p].kind = "null"
NullBody == [kind |-> "null"]
\* a body that JSON.parse rejects
TextBody == [kind |-> "text"]

\* The manifest code indexes what readManifest returned, and readManifest
\* returns whatever JSON.parse gave.  Indexing null is a TypeError.
Indexed(m, p) ==
    IF Failed(m) THEN m
    ELSE IF ParsesToNull(m.fs, p) THEN [m EXCEPT !.err = "TypeError"]
    ELSE m
\* manifest.member[key]: a TypeError also when the object has no such member
Membered(m, p, member) ==
    IF Failed(m) THEN m
    ELSE IF ParsesToNull(m.fs, p) THEN [m EXCEPT !.err = "TypeError"]
    ELSE IF Parses(m.fs, p) /\ member \notin DOMAIN m.fs.files[p].value
    THEN [m EXCEPT !.err = "TypeError"]
    ELSE m

---------------------------------------------------------------------------
(* String literals of the source.                                          *)

str_src == <<"s", "r", "c">>
str_app == <<"a", "p", "p">>
str_api == <<"a", "p", "i">>
str_slash_api == <<"/", "a", "p", "i">>
str_slash == <<"/">>
str_manifest_json == <<"m", "a", "n", "i", "f", "e", "s", "t", ".", "j", "s", "o", "n">>
str_route_ts == <<"r", "o", "u", "t", "e", ".", "t", "s">>
str_body_dot == <<"b", "o", "d", "y", ".">>
str_colon == <<":">>
str_db == <<"d", "b">>
str_schema == <<"s", "c", "h", "e", "m", "a">>
str_archive == <<"_", "a", "r", "c", "h", "i", "v", "e">>
str_index_ts == <<"i", "n", "d", "e", "x", ".", "t", "s">>
str_dot_ts == <<".", "t", "s">>
str_underscore == <<"_">>
str_dash == <<"-">>

---------------------------------------------------------------------------
(* codegen/endpoints.ts                                                    *)

\* resolveFromRoot('src/app/api')
apiDir == <<str_src, str_app, str_api>>
\* resolveFromRoot('src/app/api/manifest.json')
endpointManifestPath == apiDir \o <<str_manifest_json>>

\* readManifest: the parsed manifest, {} when the file is missing or unparsable
readEndpointManifest(tree) ==
    IF Parses(tree, endpointManifestPath)
    THEN tree.files[endpointManifestPath].value ELSE <<>>

writeEndpointManifest(m, manifest) ==
    writeTextFile(m, endpointManifestPath, JSONstringify(manifest))

normalizeApiPath(apiPath) ==
    LET trimmed == Trim(apiPath)
        slashed == IF StartsWith(trimmed, str_slash) THEN trimmed
                   ELSE str_slash \o trimmed
        prefixed == IF StartsWith(slashed, str_slash_api) THEN slashed
                    ELSE str_slash_api \o slashed
    IN  IF EndsWith(prefixed, str_slash) THEN DropLast(prefixed, 1) ELSE prefixed

\* ':name' -> '[name]'
bracketSegment(segment) ==
    IF StartsWith(segment, str_colon) THEN <<"[">> \o Tail(segment) \o <<"]">>
    ELSE segment

routeSegments(apiPath) ==
    LET withoutApi == IF StartsWith(apiPath, str_slash_api) THEN Drop(apiPath, 4)
                      ELSE apiPath
        nonEmpty(segment) == segment # <<>>
        kept == Filter(Split(withoutApi, "/"), nonEmpty)
    IN  [i \in 1..Len(kept) |-> bracketSegment(kept[i])]

IsWordChar(c) == c \in Lower \cup Upper \cup Digits \cup {"_"}

\* value.replace(/[^a-zA-Z0-9_]/g, '_').replace(/^[0-9]/, '_$&')
toIdentifier(value) ==
    LET replaced == [i \in 1..Len(value) |->
                        IF IsWordChar(value[i]) THEN value[i] ELSE "_"]
    IN  IF replaced # <<>> /\ replaced[1] \in Digits THEN <<"_">> \o replaced
        ELSE replaced

\* the comparator function an operator maps to
comparatorOf(op) ==
    CASE op = "="  -> "eq"
      [] op = "!=" -> "ne"
      [] op = ">"  -> "gt"
      [] op = ">=" -> "gte"
      [] op = "<"  -> "lt"
      [] op = "<=" -> "lte"
      [] OTHER     -> "eq"

operatorExpression(op, table, column, valueVar) ==
    [fn |-> comparatorOf(op), table |-> toIdentifier(table),
     column |-> toIdentifier(column), value |-> valueVar]

\* config.where ?? [] and config.fieldMapping ?? {}
whereOf(config) == IF "where" \in DOMAIN config THEN config.where ELSE <<>>
fieldMappingOf(config) ==
    IF "fieldMapping" \in DOMAIN config THEN config.fieldMapping ELSE <<>>

\* one guarded filters.push per declared condition, in declaration order;
\* whereClause is undefined / filters[0] / and(...filters)
buildWhereClauses(config, alias) ==
    [i \in 1..Len(whereOf(config)) |->
        [source |-> whereOf(config)[i].source,
         expr |-> operatorExpression(whereOf(config)[i].op, config.table,
                                     whereOf(config)[i].column, <<alias, i - 1>>)]]

needsBody(config) ==
    \/ \E i \in 1..Len(fieldMappingOf(config)) :
           StartsWith(fieldMappingOf(config)[i].source, str_body_dot)
    \/ \E i \in 1..Len(whereOf(config)) :
           StartsWith(whereOf(config)[i].source, str_body_dot)

buildMethodHandler(method, config) ==
    [method |-> method,
     table |-> toIdentifier(config.table),
     requiresBody |-> needsBody(config) \/ config.action = "insert",
     filters |-> buildWhereClauses(config, method),
     action |-> config.action,
     values |-> IF config.action = "insert" THEN fieldMappingOf(config) ELSE <<>>]

\* a Set's elements in insertion order
RECURSIVE Uniq(_)
Uniq(seq) ==
    IF seq = <<>> THEN <<>>
    ELSE LET front == Uniq(DropLast(seq, 1))
             x == seq[Len(seq)]
         IN  IF x \in Range(front) THEN front ELSE Append(front, x)

RECURSIVE Flatten(_)
Flatten(seqs) == IF seqs = <<>> THEN <<>> ELSE Head(seqs) \o Flatten(Tail(seqs))

collectComparatorImports(methods) ==
    LET ofConfig(config) ==
            (IF Len(whereOf(config)) > 0 THEN <<"and">> ELSE <<>>)
            \o [i \in 1..Len(whereOf(config)) |-> comparatorOf(whereOf(config)[i].op)]
    IN  Uniq(Flatten([i \in 1..Len(methods) |-> ofConfig(methods[i].v)]))

\* the body of route.ts, or "" for an empty method group
EmptyBody == [kind |-> "empty"]
buildRouteFile(pathKey, methods) ==
    IF methods = <<>> THEN EmptyBody
    ELSE [kind |-> "route",
          tableImports |-> Uniq([i \in 1..Len(methods) |-> methods[i].v.table]),
          comparators |-> collectComparatorImports(methods),
          handlers |-> [i \in 1..Len(methods) |->
                           buildMethodHandler(methods[i].k, methods[i].v)]]

routeFilePath(pathKey) == pathJoin(apiDir, routeSegments(pathKey) \o <<str_route_ts>>)

writeRouteFile(m, pathKey, methods) ==
    LET content == buildRouteFile(pathKey, methods)
        filePath == routeFilePath(pathKey)
    IN  IF Failed(m) THEN m
        ELSE IF content = EmptyBody
             THEN IF fileExists(m.fs, filePath) THEN removeFile(m, filePath) ELSE m
        ELSE writeTextFile(ensureDir(m, pathDirname(filePath)), filePath, content)

\* upsertEndpoint with the slip of storing the new method as the whole group
upsertEndpoint_dropsOthers(m, payload) ==
    LET manifest == readEndpointManifest(m.fs)
        pathKey == normalizeApiPath(payload.path)
        group == <<[k |-> payload.method, v |-> payload]>>
        written == writeEndpointManifest(m, ObjSet(manifest, pathKey, group))
    IN  Returns(writeRouteFile(written, pathKey, group),
                "generated.", <<payload.method, pathKey>>)

upsertEndpoint(m, payload) ==
    LET manifest == readEndpointManifest(m.fs)
        pathKey == normalizeApiPath(payload.path)
        group == ObjSet(IF ObjHas(manifest, pathKey) THEN ObjGet(manifest, pathKey)
                        ELSE <<>>,
                        payload.method, payload)
        written == writeEndpointManifest(Indexed(m, endpointManifestPath),
                                         ObjSet(manifest, pathKey, group))
    IN  Returns(writeRouteFile(written, pathKey, group),
                "generated.", <<payload.method, pathKey>>)

deleteEndpoint(m, path, method) ==
    LET manifest == readEndpointManifest(m.fs)
        pathKey == normalizeApiPath(path)
        group == ObjDel(ObjGet(manifest, pathKey), method)
        after == IF group = <<>> THEN ObjDel(manifest, pathKey)
                 ELSE ObjSet(manifest, pathKey, group)
    IN  IF ParsesToNull(m.fs, endpointManifestPath)
        THEN Indexed(m, endpointManifestPath)
        ELSE IF ~ObjHas(manifest, pathKey)
        THEN Returns(m, "Endpoint already removed.", <<>>)
        ELSE Returns(writeRouteFile(writeEndpointManifest(m, after), pathKey, group),
                     "removed.", <<method, pathKey>>)


---------------------------------------------------------------------------
(* The initial project tree and the bookkeeping of an operation.           *)

str_todos == <<"t", "o", "d", "o", "s">>
str_id == <<"i", "d">>
str_title == <<"t", "i", "t", "l", "e">>
str_query_id == <<"q", "u", "e", "r", "y", ".", "i", "d">>
str_params_id == <<"p", "a", "r", "a", "m", "s", ".", "i", "d">>
str_body_title == <<"b", "o", "d", "y", ".", "t", "i", "t", "l", "e">>
str_path_todos == <<"/", "t", "o", "d", "o", "s">>
str_path_todos_bare == <<"t", "o", "d", "o", "s", "/">>
str_path_t_id == <<"/", "t", "/", ":", "i", "d">>
str_page_tsx == <<"p", "a", "g", "e", ".", "t", "s", "x">>
str_layout_tsx == <<"l", "a", "y", "o", "u", "t", ".", "t", "s", "x">>
str_generated == <<"_", "g", "e", "n", "e", "r", "a", "t", "e", "d">>
str_templates == <<"t", "e", "m", "p", "l", "a", "t", "e", "s">>
str_layouts_ts == <<"l", "a", "y", "o", "u", "t", "s", ".", "t", "s">>
str_registry_ts == <<"r", "e", "g", "i", "s", "t", "r", "y", ".", "t", "s">>

appDir == <<str_src, str_app>>
\* resolveFromRoot('src/app/_generated/templates')
templatesDir == appDir \o <<str_generated, str_templates>>

\* the tree of a fresh checkout: the application shell and the two lookup
\* files that the generated pages import
InitialTree ==
    [files |-> (appDir \o <<str_page_tsx>>) :> [kind |-> "static"]
               @@ (appDir \o <<str_layout_tsx>>) :> [kind |-> "static"]
               @@ (templatesDir \o <<str_layouts_ts>>) :> [kind |-> "layouts", rows |-> <<>>]
               @@ (templatesDir \o <<str_registry_ts>>) :> [kind |-> "registry", imports |-> <<>>, groups |-> <<>>],
     dirs |-> Prefixes(templatesDir)]

NoOp == [op |-> "none", arg |-> <<>>, ok |-> TRUE, err |-> NoErr, trace |-> <<>>]

InitialHist ==
    [epKeys |-> {}, epLive |-> {}, epAllOk |-> TRUE,
     archived |-> {}, live |-> {}, tblAllOk |-> TRUE, repeated |-> FALSE,
     fresh |-> FALSE, requests |-> 0, layoutFor |-> {},
     wrote |-> [manifest |-> 0, artifact |-> 0]]

\* a caller that has not called
Idle == [pc |-> "idle"]
Callers == 1..MaxCallers
NoCalls == [caller \in Callers |-> Idle]

Init ==
    /\ fs = InitialTree
    /\ storage = {}
    /\ clock = 0
    /\ last = NoOp
    /\ hist = InitialHist
    /\ inflight = NoCalls

\* the operation `op` called with `arg` ended in m: its effects stay, and it
\* reported ok unless a step threw
Commit(m, op, arg) ==
    /\ fs' = m.fs
    /\ storage' = m.storage
    /\ last' = [op |-> op, arg |-> arg, ok |-> ~Failed(m), err |-> m.err,
                trace |-> m.trace]
    /\ UNCHANGED inflight

---------------------------------------------------------------------------
(* Endpoint operations, one call at a time, every I/O call succeeding.      *)

Methods == {"GET", "POST", "DELETE"}
\* the paths of upserts, and the spellings deletes use for them
EndpointPaths == {str_path_todos, str_path_t_id}
EndpointDeletePaths == EndpointPaths \cup {str_path_todos_bare}

WhereId(source) == <<[column |-> str_id, op |-> "=", source |-> source]>>

EndpointConfigs ==
    {[method |-> "GET", table |-> str_todos, action |-> "select",
      fieldMapping |-> <<>>, where |-> WhereId(str_query_id)],
     [method |-> "POST", table |-> str_todos, action |-> "insert",
      fieldMapping |-> <<[column |-> str_title, source |-> str_body_title]>>,
      where |-> <<>>],
     [method |-> "DELETE", table |-> str_todos, action |-> "delete",
      fieldMapping |-> <<>>, where |-> WhereId(str_params_id)]}

EndpointPayloads ==
    {[method |-> c.method, path |-> p, table |-> c.table, action |-> c.action,
      fieldMapping |-> c.fieldMapping, where |-> c.where] :
        c \in EndpointConfigs, p \in EndpointPaths}

EndpointHist(m, key, method, present) ==
    [hist EXCEPT !.epKeys = @ \cup {key},
                 !.epAllOk = @ /\ ~Failed(m),
                 !.epLive = IF Failed(m) \/ ~hist.epAllOk THEN {}
                            ELSE IF present THEN @ \cup {<<key, method>>}
                            ELSE @ \ {<<key, method>>}]

UpsertEndpoint(payload, env) ==
    LET m == upsertEndpoint(Start(env), payload)
    IN  /\ Commit(m, "upsertEndpoint", payload)
        /\ hist' = EndpointHist(m, normalizeApiPath(payload.path), payload.method, TRUE)
        /\ UNCHANGED clock

DeleteEndpoint(path, method, env) ==
    LET m == deleteEndpoint(Start(env), path, method)
    IN  /\ Commit(m, "deleteEndpoint", [path |-> path, method |-> method])
        /\ hist' = EndpointHist(m, normalizeApiPath(path), method, FALSE)
        /\ UNCHANGED clock

NextEndpoint ==
    \/ \E payload \in EndpointPayloads : UpsertEndpoint(payload, NoFault)
    \/ \E path \in EndpointDeletePaths, method \in Methods :
           DeleteEndpoint(path, method, NoFault)

SpecEndpoint == Init /\ [][NextEndpoint]_vars

\* C1: after an endpoint call that reported ok, in a run whose calls all used
\* one path, the route file of that path exists exactly when the manifest has
\* a (non-empty) method group for it, the file exports one handler per method
\* of the group and no other, and, when every call so far reported ok, the
\* group holds exactly the methods upserted and not deleted since: a second
\* upsert keeps the first handler, a delete leaves the others, and the delete
\* of the last method removes the file and the manifest key.
C1_ArtifactMatchesGroup ==
    (/\ last.op \in {"upsertEndpoint", "deleteEndpoint"}
     /\ last.ok
     /\ Cardinality(hist.epKeys) = 1)
    => \A key \in hist.epKeys :
          LET manifest == readEndpointManifest(fs)
              present == ObjHas(manifest, key)
              group == IF present THEN ObjGet(manifest, key) ELSE <<>>
              file == routeFilePath(key)
          IN  /\ present => group # <<>>
              /\ HasFile(fs, file) <=> present
              /\ HasFile(fs, file) =>
                    /\ fs.files[file].kind = "route"
                    /\ [i \in 1..Len(fs.files[file].handlers) |->
                           fs.files[file].handlers[i].method] = ObjKeys(group)
              /\ hist.epAllOk =>
                    Range(ObjKeys(group)) = {e[2] : e \in {l \in hist.epLive : l[1] = key}}

\* C1 witness: one path, two methods upserted and one of them deleted again;
\* the file still exports the other.
C1_Witness ==
    /\ last.op = "deleteEndpoint" /\ last.ok /\ hist.epAllOk
    /\ Cardinality(hist.epKeys) = 1
    /\ \E key \in hist.epKeys :
          /\ HasFile(fs, routeFilePath(key))
          /\ Len(fs.files[routeFilePath(key)].handlers) = 1
          /\ fs.files[routeFilePath(key)].handlers[1].method # last.arg.method
          /\ normalizeApiPath(last.arg.path) = key


---------------------------------------------------------------------------
(* codegen/tables.ts and codegen/utils/runDrizzle.ts                       *)

\* resolveFromRoot('src/db/schema')
schemaDir == <<str_src, str_db, str_schema>>
archiveDir == pathJoin(schemaDir, <<str_archive>>)
schemaIndexPath == pathJoin(schemaDir, <<str_index_ts>>)
\* path.join(schemaDir, `${tableName}.ts`)
tableFilePath(tableName) == pathJoin(schemaDir, <<tableName \o str_dot_ts>>)
\* path.join(archiveDir, `${tableName}-${Date.now()}.ts`)
archivedPath(tableName, now) ==
    pathJoin(archiveDir, <<tableName \o str_dash \o NatToStr(now) \o str_dot_ts>>)

typeMap(type) == IF type = "boolean" THEN "integer" ELSE type

\* tables.ts has its own copy of toIdentifier
tableToIdentifier(value) ==
    LET replaced == [i \in 1..Len(value) |->
                        IF IsWordChar(value[i]) THEN value[i] ELSE "_"]
    IN  IF replaced # <<>> /\ replaced[1] \in Digits THEN <<"_">> \o replaced
        ELSE replaced

\* a column's default is a one-element list [kind, text] or the empty list
formatDefault(defaultValue) ==
    [i \in 1..Len(defaultValue) |->
        [quoted |-> defaultValue[i].kind = "string", text |-> defaultValue[i].text]]

\* the builder chain of one column; a column's fk is a one-element list or
\* the empty list, an absent flag is FALSE
columnToString(column, tableId, tableName) ==
    [identifier |-> tableToIdentifier(column.name),
     builder |-> typeMap(column.type),
     name |-> column.name,
     typed |-> column.type = "boolean",
     primaryKey |-> IF ~column.primaryKey THEN "no"
                    ELSE IF column.autoIncrement THEN "autoIncrement" ELSE "plain",
     notNull |-> column.notNull,
     default |-> formatDefault(column.default),
     references |-> [i \in 1..Len(column.fk) |->
                        [table |-> IF column.fk[i].table = tableName THEN tableId
                                   ELSE tableToIdentifier(column.fk[i].table),
                         column |-> tableToIdentifier(column.fk[i].column),
                         onDelete |-> column.fk[i].onDelete]]]

\* the sorted import list: sqliteTable and the builders the columns use
buildImports(payload) ==
    LET used == {"sqliteTable"} \cup {typeMap(payload.columns[i].type) :
                                         i \in 1..Len(payload.columns)}
        isUsed(name) == name \in used
    IN  Filter(<<"integer", "real", "sqliteTable", "text">>, isUsed)

buildForeignKeyImports(payload) ==
    LET targets == Flatten([i \in 1..Len(payload.columns) |->
                       [j \in 1..Len(payload.columns[i].fk) |->
                           payload.columns[i].fk[j].table]])
        foreign(table) == table # payload.tableName
        distinct == Uniq(Filter(targets, foreign))
    IN  [i \in 1..Len(distinct) |->
            [id |-> tableToIdentifier(distinct[i]), from |-> distinct[i]]]

generateTableContent(payload) ==
    [kind |-> "schema",
     header |-> payload.displayName,
     imports |-> buildImports(payload),
     fkImports |-> buildForeignKeyImports(payload),
     tableId |-> tableToIdentifier(payload.tableName),
     tableName |-> payload.tableName,
     columns |-> [i \in 1..Len(payload.columns) |->
                     columnToString(payload.columns[i],
                                    tableToIdentifier(payload.tableName),
                                    payload.tableName)]]

\* the files the index re-exports, by base name, in sorted order
indexedFiles(tree) ==
    LET listed == {file \in listFiles(tree, schemaDir) :
                      /\ EndsWith(file, str_dot_ts)
                      /\ file # str_index_ts
                      /\ ~StartsWith(file, str_underscore)}
        sorted == SortStrs(listed)
    IN  [i \in 1..Len(sorted) |-> DropLast(sorted[i], 3)]

updateSchemaIndex(m) ==
    IF Failed(m) THEN m
    ELSE writeTextFile(m, schemaIndexPath,
                       [kind |-> "index", exports |-> indexedFiles(m.fs)])

sanitizeTableIdentifier(tableName) ==
    [i \in 1..Len(tableName) |-> IF IsWordChar(tableName[i]) THEN tableName[i] ELSE "_"]

\* a step outside the file system (a statement on sqlite.db, a spawned
\* process); `how` says how it fails when the fault falls on it
External(m, op, what, how, stored) ==
    IF Failed(m) THEN m
    ELSE IF Faulty(m)
         THEN [Did(m, op, what, how, m.fs) EXCEPT !.storage = m.storage]
    ELSE [Did(m, op, what, NoErr, m.fs) EXCEPT !.storage = stored]

\* new Database(...); DROP TABLE IF EXISTS <identifier>; close
dropTable(m, tableName) ==
    External(m, "dropTable", <<sanitizeTableIdentifier(tableName)>>, "SQLITE_ERROR",
             m.storage \ {sanitizeTableIdentifier(tableName)})

\* the tables that the schema sources reachable from the index define
sourceTables(tree) ==
    IF ~HasFile(tree, schemaIndexPath) \/ tree.files[schemaIndexPath].kind # "index"
    THEN {}
    ELSE {tree.files[f].tableName :
             f \in {g \in {tableFilePath(e) : e \in Range(tree.files[schemaIndexPath].exports)} :
                       HasFile(tree, g) /\ tree.files[g].kind = "schema"}}

\* run('npx', ['drizzle-kit', step, ...]): resolves when the process closes
\* with code 0 and rejects otherwise (another exit code, or no process at
\* all); a push that succeeds leaves storage with the tables of the schema
\* sources
run(m, step) ==
    External(m, "run", <<step>>, "exited",
             IF step = "push:sqlite" THEN sourceTables(m.fs) ELSE m.storage)

\* runDrizzle with the slip of not awaiting the first step's outcome
runDrizzle_unchecked(m) ==
    LET generated == run(m, "generate:sqlite")
    IN  run([generated EXCEPT !.err = m.err], "push:sqlite")

runDrizzle(m) == run(run(m, "generate:sqlite"), "push:sqlite")

upsertTable(m, payload) ==
    LET tableFile == tableFilePath(payload.tableName)
        content == generateTableContent(payload)
    IN  Returns(runDrizzle(updateSchemaIndex(writeTextFile(m, tableFile, content))),
                "synced.", <<payload.tableName>>)

deleteTable(m, tableName) ==
    LET sourceFile == tableFilePath(tableName)
        archived == archivedPath(tableName, m.now)
        moved == IF fileExists(m.fs, sourceFile)
                 THEN moveFile(ensureDir(m, archiveDir), sourceFile, archived)
                 ELSE m
    IN  Returns(runDrizzle(dropTable(updateSchemaIndex(moved), tableName)),
                "archived.", <<tableName>>)


---------------------------------------------------------------------------
(* Table operations, one call at a time; any one step of a call may fail,  *)
(* and time passes between calls or does not (Date.now() has a resolution  *)
(* of a millisecond and follows the wall clock).                           *)

str_t == <<"t">>
str__t == <<"_", "t">>
str_index == <<"i", "n", "d", "e", "x">>
str_done == <<"d", "o", "n", "e">>
str_owner == <<"o", "w", "n", "e", "r">>
str_false == <<"f", "a", "l", "s", "e">>

Column(name, type) ==
    [name |-> name, type |-> type, primaryKey |-> FALSE, autoIncrement |-> FALSE,
     notNull |-> FALSE, default |-> <<>>, fk |-> <<>>]

colId == [Column(str_id, "integer") EXCEPT !.primaryKey = TRUE, !.autoIncrement = TRUE]
colTitle == [Column(str_title, "text") EXCEPT !.notNull = TRUE]
colDone == [Column(str_done, "boolean") EXCEPT
               !.default = <<[kind |-> "boolean", text |-> str_false]>>]
colOwner == [Column(str_owner, "integer") EXCEPT
               !.fk = <<[table |-> str_t, column |-> str_id, onDelete |-> "cascade"]>>]

TablePayload(tableName, columns) ==
    [tableName |-> tableName, displayName |-> <<>>, columns |-> columns]

\* two payloads for the table t
TablePayloads ==
    {TablePayload(str_t, <<colId, colTitle>>),
     TablePayload(str_t, <<colId, colDone, colOwner>>)}
\* tables with the names index and _t, which validation (a non-empty
\* string) accepts
NamedPayloads ==
    {TablePayload(str_index, <<colId>>),
     TablePayload(str__t, <<colId, colOwner>>)}
TableNames(payloads) == {payload.tableName : payload \in payloads}

StepOk(trace, op) == \E i \in 1..Len(trace) : trace[i].op = op /\ trace[i].err = NoErr

TableHist(m, tableName, present) ==
    [hist EXCEPT !.tblAllOk = @ /\ ~Failed(m),
                 !.live = IF Failed(m) \/ ~hist.tblAllOk THEN {}
                          ELSE IF present THEN @ \cup {tableName}
                          ELSE @ \ {tableName}]

UpsertTable(payload, env) ==
    LET m == upsertTable(Start(env), payload)
    IN  /\ Commit(m, "upsertTable", payload)
        /\ hist' = [TableHist(m, payload.tableName, TRUE) EXCEPT
                       !.repeated = /\ last.op = "upsertTable" /\ last.ok
                                    /\ last.arg = payload /\ ~Failed(m)]
        /\ UNCHANGED clock

DeleteTable(tableName, env) ==
    LET m == deleteTable(Start(env), tableName)
        copy == [path |-> archivedPath(tableName, clock),
                 body |-> fs.files[tableFilePath(tableName)]]
    IN  /\ Commit(m, "deleteTable", tableName)
        /\ hist' = [TableHist(m, tableName, FALSE) EXCEPT
                       !.repeated = FALSE,
                       !.archived = IF StepOk(m.trace, "moveFile") THEN @ \cup {copy}
                                    ELSE @]
        /\ UNCHANGED clock

\* time passes
Tick ==
    /\ clock < MaxClock
    /\ clock' = clock + 1
    /\ UNCHANGED <<fs, storage, last, hist, inflight>>

TableCalls(payloads) ==
    \/ \E payload \in payloads :
           \E env \in Envs(upsertTable(Start(NoFault), payload)) :
               UpsertTable(payload, env)
    \/ \E tableName \in TableNames(payloads) :
           \E env \in Envs(deleteTable(Start(NoFault), tableName)) :
               DeleteTable(tableName, env)

\* one table, upserted with two payloads and deleted, while time passes
NextTable == TableCalls(TablePayloads) \/ Tick
SpecTable == Init /\ [][NextTable]_vars

\* tables of several names, upserted and deleted
NextTableNames == TableCalls(NamedPayloads)
SpecTableNames == Init /\ [][NextTableNames]_vars


TableOps == {"upsertTable", "deleteTable"}
IsRun(ev, step) == ev.op = "run" /\ ev.path = <<step>>
IsIndexWrite(ev) == ev.op = "writeTextFile" /\ ev.path = schemaIndexPath
\* the events of the trace that satisfy Is come only after one that satisfies
\* Was and succeeded
OnlyAfter(trace, Is(_), Was(_)) ==
    \A i \in 1..Len(trace) :
        Is(trace[i]) => \E j \in 1..(i - 1) : Was(trace[j]) /\ trace[j].err = NoErr

\* C2 (as claimed): once deleteTable has archived the schema artifact of a
\* table, whatever happens to its later steps, the artifact's content is
\* under the archive location, no artifact of the table is left in the schema
\* directory and the index, when it was regenerated, does not re-export the
\* table; and every copy archived earlier is still there.
C2_ArchiveKeepsEveryCopy ==
    /\ (/\ last.op = "deleteTable"
        /\ StepOk(last.trace, "moveFile"))
       => /\ \E copy \in hist.archived :
                /\ IsPrefix(archiveDir, copy.path)
                /\ HasFile(fs, copy.path)
                /\ fs.files[copy.path].kind = "schema"
                /\ fs.files[copy.path].tableName = last.arg
          /\ ~HasFile(fs, tableFilePath(last.arg))
          /\ (\E i \in 1..Len(last.trace) :
                  IsIndexWrite(last.trace[i]) /\ last.trace[i].err = NoErr)
             => last.arg \notin Range(fs.files[schemaIndexPath].exports)
    /\ \A copy \in hist.archived :
          HasFile(fs, copy.path) /\ fs.files[copy.path] = copy.body

\* C5: an upsertTable that reports ok right after an upsertTable of the same
\* payload that reported ok leaves the table's schema artifact and the schema
\* index exactly as they were.
C5_ReupsertIdentical ==
    [][(/\ last.op = "upsertTable" /\ last.ok
        /\ last'.op = "upsertTable" /\ last'.ok
        /\ last'.arg = last.arg)
       => /\ fs'.files[tableFilePath(last.arg.tableName)]
                = fs.files[tableFilePath(last.arg.tableName)]
          /\ fs'.files[schemaIndexPath] = fs.files[schemaIndexPath]]_vars

\* C5 witness: a payload was upserted twice in a row, both calls reporting ok.
C5_Witness ==
    /\ hist.repeated /\ last.op = "upsertTable" /\ last.ok
    /\ HasFile(fs, tableFilePath(last.arg.tableName))

\* C8: in a table operation the push step is started only after the generate
\* step succeeded (so never after it failed), the operation reports ok only
\* when both steps succeeded, and in deleteTable the DROP is issued only
\* after the index was regenerated and the generate step is started only
\* after the DROP succeeded.
C8_MigrationStepsOrdered ==
    last.op \in TableOps =>
        LET generate(ev) == IsRun(ev, "generate:sqlite")
            push(ev) == IsRun(ev, "push:sqlite")
            drop(ev) == ev.op = "dropTable"
            done(Is(_)) == \E i \in 1..Len(last.trace) :
                               Is(last.trace[i]) /\ last.trace[i].err = NoErr
        IN  /\ OnlyAfter(last.trace, push, generate)
            /\ last.ok => done(generate) /\ done(push)
            /\ last.op = "deleteTable" =>
                  /\ OnlyAfter(last.trace, drop, IsIndexWrite)
                  /\ OnlyAfter(last.trace, generate, drop)

\* C8 witness: a deleteTable whose generate step failed after the index was
\* regenerated and the table dropped; push was not started.
C8_Witness ==
    /\ last.op = "deleteTable" /\ ~last.ok
    /\ StepOk(last.trace, "moveFile") /\ StepOk(last.trace, "dropTable")
    /\ IsRun(last.trace[Len(last.trace)], "generate:sqlite")
    /\ last.trace[Len(last.trace)].err # NoErr

\* C9 (as claimed): when a migration step of upsertTable(P) fails, the call
\* reports failure, and the schema artifact written for P and a schema index
\* that re-exports P's table are on disk as written.
C9_FailedMigrationKeepsSources ==
    (/\ last.op = "upsertTable"
     /\ \E i \in 1..Len(last.trace) :
            last.trace[i].op = "run" /\ last.trace[i].err # NoErr)
    => /\ ~last.ok
       /\ HasFile(fs, tableFilePath(last.arg.tableName))
       /\ fs.files[tableFilePath(last.arg.tableName)] = generateTableContent(last.arg)
       /\ HasFile(fs, schemaIndexPath)
       /\ fs.files[schemaIndexPath].kind = "index"
       /\ last.arg.tableName \in Range(fs.files[schemaIndexPath].exports)

\* C10 (as claimed): after table calls that all reported ok, the schema index
\* re-exports exactly the tables upserted and not deleted since, in sorted
\* order, and each of those tables still has its schema artifact.
C10_IndexListsLiveTables ==
    (last.op \in TableOps /\ hist.tblAllOk)
    => /\ HasFile(fs, schemaIndexPath)
       /\ fs.files[schemaIndexPath].kind = "index"
       /\ fs.files[schemaIndexPath].exports = SortStrs(hist.live)
       /\ \A tableName \in hist.live :
             /\ HasFile(fs, tableFilePath(tableName))
             /\ fs.files[tableFilePath(tableName)].kind = "schema"
             /\ fs.files[tableFilePath(tableName)].tableName = tableName


---------------------------------------------------------------------------
(* routes.ts: route directories, pages and detail pages.                   *)

str_routes == <<"r", "o", "u", "t", "e", "s">>
str_id_dir == <<"[", "i", "d", "]">>
str_app_archive == <<"_", "a", "r", "c", "h", "i", "v", "e">>

IsAlnum(c) == c \in Lower \cup Upper \cup Digits
\* String.prototype.toUpperCase on one character
ToUpper(c) == IF c \in Lower THEN CharOrder[Code(c) - (Code("a") - Code("A"))] ELSE c

routeManifestPath == appDir \o <<str_generated, str_routes, str_manifest_json>>

readRouteManifest(tree) ==
    IF Parses(tree, routeManifestPath) THEN tree.files[routeManifestPath].value
    ELSE <<>>

writeRouteManifest(m, manifest) ==
    writeTextFile(m, routeManifestPath, JSONstringify(manifest))

\* utils/fs.ts normalizeRoutePath: a path without a leading slash gets one
\* and keeps its end; otherwise one trailing slash is removed
normalizeRoutePath(routePath) ==
    IF ~StartsWith(routePath, str_slash) THEN str_slash \o routePath
    ELSE LET stripped == IF EndsWith(routePath, str_slash)
                         THEN DropLast(routePath, 1) ELSE routePath
         IN  IF stripped = <<>> THEN str_slash ELSE stripped

\* routePath.split('/').filter(Boolean)
rawSegments(routePath) == Filter(Split(routePath, "/"), LAMBDA seg : seg # <<>>)

pathSegments(routePath) ==
    LET segments == rawSegments(routePath)
    IN  [i \in 1..Len(segments) |->
            IF StartsWith(segments[i], str_colon)
            THEN <<"[">> \o Drop(segments[i], 1) \o <<"]">>
            ELSE segments[i]]

\* `${acc}/${segment}`.replace(/\/+/g, '/'), accumulated over the segments
RECURSIVE hrefOf(_, _)
hrefOf(segments, k) ==
    IF k = 0 THEN <<>> ELSE hrefOf(segments, k - 1) \o str_slash \o segments[k]

breadcrumbs(routePath) ==
    LET segments == rawSegments(routePath)
    IN  [k \in 1..Len(segments) |->
            [label |-> segments[k], href |-> hrefOf(segments, k)]]

\* routes.ts toComponentName: its second and third patterns are written
\* with doubled backslashes and match nothing in a string without them
routeComponentName(name) ==
    LET cleaned == [i \in 1..Len(name) |-> IF IsAlnum(name[i]) THEN name[i] ELSE " "]
    IN  IF cleaned = <<>> THEN <<"G", "e", "n", "e", "r", "a", "t", "e", "d",
                                 "R", "o", "u", "t", "e", "P", "a", "g", "e">>
        ELSE <<ToUpper(cleaned[1])>> \o Tail(cleaned)

buildPageContent(routePath, pageName) ==
    [kind |-> "page", routePath |-> routePath, crumbs |-> breadcrumbs(routePath),
     componentName |-> routeComponentName(pageName)]

routeDir(routePath) == pathJoin(appDir, pathSegments(routePath))

ensureRoute(m, routePath) == ensureDir(m, routeDir(normalizeRoutePath(routePath)))

upsertRoute(m, payload) ==
    LET routePath == normalizeRoutePath(payload.path)
        manifest == ObjSet(readRouteManifest(m.fs), routePath, payload)
        written == writeRouteManifest(Indexed(m, routeManifestPath), manifest)
        filePath == pathJoin(routeDir(routePath), <<str_page_tsx>>)
        made == ensureDir(written, pathDirname(filePath))
    IN  Returns(writeTextFile(made, filePath,
                              buildPageContent(routePath, payload.pageName)),
                "generated.", <<routePath>>)

\* normalized.replace(/\//g, '_')
underscored(routePath) ==
    [i \in 1..Len(routePath) |-> IF routePath[i] = "/" THEN "_" ELSE routePath[i]]

routeArchivePath(normalized, now) ==
    pathJoin(appDir \o <<str_app_archive>>,
             <<underscored(normalized) \o str_dash \o NatToStr(now)>>)

\* an error of the move is caught and ignored
deleteRoute(m, routePath) ==
    LET normalized == normalizeRoutePath(routePath)
        dir == routeDir(normalized)
        manifest == ObjDel(readRouteManifest(m.fs), normalized)
        written == writeRouteManifest(Indexed(m, routeManifestPath), manifest)
    IN  IF Failed(written) THEN written
        ELSE Returns([moveFile(written, dir, routeArchivePath(normalized, m.now))
                         EXCEPT !.err = NoErr],
                     "archived.", <<normalized>>)

dynamicPageContent(options) ==
    [kind |-> "detail", endpointPath |-> options.endpointPath,
     routePath |-> options.routePath]

ensureDynamicRoute(m, routePath, options) ==
    LET normalized == normalizeRoutePath(routePath)
        dir == pathJoin(routeDir(normalized), <<str_id_dir>>)
        filePath == pathJoin(dir, <<str_page_tsx>>)
    IN  writeTextFile(ensureDir(m, dir), filePath,
                      dynamicPageContent([options EXCEPT !.routePath = normalized]))


---------------------------------------------------------------------------
(* templates.ts: the template manifest, artifacts and registry.            *)

str_dot_tsx == <<".", "t", "s", "x">>

templateManifestPath == templatesDir \o <<str_manifest_json>>
registryPath == templatesDir \o <<str_registry_ts>>

\* { templates: {} } when the file is missing or does not parse
readTemplateManifest(tree) ==
    IF Parses(tree, templateManifestPath) THEN tree.files[templateManifestPath].value
    ELSE [templates |-> <<>>]

writeTemplateManifest(m, manifest) ==
    writeTextFile(m, templateManifestPath, JSONstringify(manifest))

\* every run of non-alphanumerics goes, the character after one is put in
\* upper case, and so is the first character
toComponentName(templateId) ==
    LET spaced == [i \in 1..Len(templateId) |->
                      IF IsAlnum(templateId[i]) THEN templateId[i] ELSE " "]
        raised == [i \in 1..Len(spaced) |->
                      IF i > 1 /\ spaced[i - 1] = " " THEN ToUpper(spaced[i])
                      ELSE spaced[i]]
        cleaned == Filter(raised, LAMBDA c : c # " ")
    IN  IF cleaned = <<>> THEN <<"G", "e", "n", "e", "r", "a", "t", "e", "d",
                                 "T", "e", "m", "p", "l", "a", "t", "e">>
        ELSE <<ToUpper(cleaned[1])>> \o Tail(cleaned)

templateFilePath(templateId) == pathJoin(templatesDir, <<templateId \o str_dot_tsx>>)

buildTemplateFile(payload) ==
    [kind |-> "template", componentName |-> toComponentName(payload.templateId),
     templateId |-> payload.templateId, routePath |-> payload.routePath,
     components |-> payload.components]

\* entries.reduce(...): the templates of each routePath, routes in the order
\* of their first entry
RECURSIVE grouped(_, _)
grouped(acc, entries) ==
    IF entries = <<>> THEN acc
    ELSE LET entry == Head(entries)
             item == [templateId |-> entry.templateId,
                      component |-> toComponentName(entry.templateId)]
             sofar == IF ObjHas(acc, entry.routePath) THEN ObjGet(acc, entry.routePath)
                      ELSE <<>>
         IN  grouped(ObjSet(acc, entry.routePath, Append(sofar, item)), Tail(entries))

updateRegistry(m, manifest) ==
    LET entries == ObjValues(manifest.templates)
        imports == [i \in 1..Len(entries) |->
                       [name |-> toComponentName(entries[i].templateId),
                        from |-> <<".", "/">> \o entries[i].templateId]]
    IN  writeTextFile(m, registryPath,
                      [kind |-> "registry", imports |-> imports,
                       groups |-> grouped(<<>>, entries)])

IsDynamicTable(component) ==
    /\ component.type = "table"
    /\ "dynamicRouting" \in DOMAIN component
    /\ component.dynamicRouting

\* Promise.all over the calls: all of them are started, they share the tree,
\* and the first error rejects while the other calls run on.  `order` is the
\* order in which the calls get to their writes.
RECURSIVE ensureAll(_, _, _, _)
ensureAll(m, payload, tables, order) ==
    IF order = <<>> THEN m
    ELSE LET table == tables[Head(order)]
             ran == ensureDynamicRoute([m EXCEPT !.err = NoErr], payload.routePath,
                        [routePath |-> payload.routePath,
                         endpointPath |-> table.dataSource.endpointPath,
                         primaryKey |-> table.dataSource.primaryKey])
         IN  ensureAll([ran EXCEPT !.err = IF Failed(m) THEN m.err ELSE ran.err],
                       payload, tables, Tail(order))

ensureDynamicPages(m, payload, order) ==
    IF Failed(m) THEN m
    ELSE ensureAll(m, payload, Filter(payload.components, IsDynamicTable), order)

\* upsertTemplate with the slip of leaving the route to the detail pages
upsertTemplate_unrouted(m, payload, order) ==
    LET manifest == [templates |->
                        ObjSet(readTemplateManifest(m.fs).templates, payload.templateId,
                               [templateId |-> payload.templateId,
                                routePath |-> payload.routePath])]
        paged == ensureDynamicPages(m, payload, order)
        written == writeTemplateManifest(paged, manifest)
        filePath == templateFilePath(payload.templateId)
        made == ensureDir(written, pathDirname(filePath))
        filed == writeTextFile(made, filePath, buildTemplateFile(payload))
    IN  Returns(updateRegistry(filed, manifest), "generated.", <<payload.templateId>>)

upsertTemplate(m, payload, order) ==
    LET manifest == [templates |->
                        ObjSet(readTemplateManifest(m.fs).templates, payload.templateId,
                               [templateId |-> payload.templateId,
                                routePath |-> payload.routePath])]
        routed == ensureRoute(Membered(m, templateManifestPath, "templates"),
                              payload.routePath)
        paged == ensureDynamicPages(routed, payload, order)
        written == writeTemplateManifest(paged, manifest)
        filePath == templateFilePath(payload.templateId)
        made == ensureDir(written, pathDirname(filePath))
        filed == writeTextFile(made, filePath, buildTemplateFile(payload))
    IN  Returns(updateRegistry(filed, manifest), "generated.", <<payload.templateId>>)

deleteTemplate(m, templateId) ==
    LET manifest == [templates |-> ObjDel(readTemplateManifest(m.fs).templates, templateId)]
        written == writeTemplateManifest(Membered(m, templateManifestPath, "templates"),
                                         manifest)
    IN  Returns(removeFile(updateRegistry(written, manifest), templateFilePath(templateId)),
                "removed.", <<templateId>>)


---------------------------------------------------------------------------
(* Template operations, one call at a time; any one step of a call may     *)
(* fail.  The templateId ../../t/[id]/page is a non-empty string, which is *)
(* all that validation asks of it.                                         *)

str_a == <<"a">>
str_up_page == <<".", ".", "/", ".", ".", "/", "t", "/", "[", "i", "d", "]", "/", "p", "a", "g", "e">>
str_route_t == <<"/", "t">>
str_route_t_bare == <<"t", "/">>
str_api_todos == <<"/", "a", "p", "i", "/", "t", "o", "d", "o", "s">>
str_api_t == <<"/", "a", "p", "i", "/", "t">>
str_list == <<"l", "i", "s", "t">>
str_more == <<"m", "o", "r", "e">>
str_name == <<"n", "a", "m", "e">>

InputComponent(id) == [id |-> id, type |-> "input"]
TableComponent(id, endpointPath, dynamicRouting) ==
    [id |-> id, type |-> "table", tableName |-> str_todos,
     dataSource |-> [endpointPath |-> endpointPath, primaryKey |-> str_id],
     dynamicRouting |-> dynamicRouting]

TemplatePayload(templateId, routePath, components) ==
    [templateId |-> templateId, routePath |-> routePath, components |-> components]

TemplatePayloads ==
    {TemplatePayload(str_a, str_route_t_bare, <<InputComponent(str_name)>>),
     TemplatePayload(str_a, str_route_t,
                     <<TableComponent(str_list, str_api_todos, TRUE),
                       TableComponent(str_more, str_api_t, TRUE)>>),
     TemplatePayload(str_up_page, str_route_t,
                     <<TableComponent(str_list, str_api_todos, TRUE)>>)}

\* the orders in which n concurrent calls can get to their writes
Orders(n) == {order \in [1..n -> 1..n] : \A i, j \in 1..n : order[i] = order[j] => i = j}
DynamicTables(payload) == Filter(payload.components, IsDynamicTable)

UpsertTemplate(payload, order, env) ==
    LET m == upsertTemplate(Start(env), payload, order)
    IN  /\ Commit(m, "upsertTemplate", payload)
        /\ hist' = [hist EXCEPT !.fresh =
                       ~HasDir(fs, routeDir(normalizeRoutePath(payload.routePath)))]
        /\ UNCHANGED clock

DeleteTemplate(templateId, env) ==
    LET m == deleteTemplate(Start(env), templateId)
    IN  /\ Commit(m, "deleteTemplate", templateId)
        /\ hist' = [hist EXCEPT !.fresh = FALSE]
        /\ UNCHANGED clock

NextTemplate ==
    \/ \E payload \in TemplatePayloads :
           \E order \in Orders(Len(DynamicTables(payload))) :
               \E env \in Envs(upsertTemplate(Start(NoFault), payload, order)) :
                   UpsertTemplate(payload, order, env)
    \/ \E payload \in TemplatePayloads :
           \E env \in Envs(deleteTemplate(Start(NoFault), payload.templateId)) :
               DeleteTemplate(payload.templateId, env)

SpecTemplate == Init /\ [][NextTemplate]_vars


templateRouteDir(payload) == routeDir(normalizeRoutePath(payload.routePath))
detailPagePath(payload) == pathJoin(templateRouteDir(payload), <<str_id_dir, str_page_tsx>>)

\* C3: after upsertTemplate reports ok the directory of the payload's route
\* exists, also when it did not exist before; and in every upsertTemplate,
\* failed or not, the template manifest, the template artifact and the
\* registry are written only after the route directory was created.
C3_RouteDirCreatedFirst ==
    last.op = "upsertTemplate" =>
        LET dir == templateRouteDir(last.arg)
            created(ev) == ev.op = "ensureDir" /\ ev.path = dir
            writes(ev) ==
                /\ ev.op = "writeTextFile"
                /\ ev.path \in {templateManifestPath, registryPath,
                                templateFilePath(last.arg.templateId)}
        IN  /\ last.ok => HasDir(fs, dir)
            /\ OnlyAfter(last.trace, writes, created)

\* C3 witness: an ok upsertTemplate for a route that had no directory.
C3_Witness ==
    /\ last.op = "upsertTemplate" /\ last.ok /\ hist.fresh
    /\ HasDir(fs, templateRouteDir(last.arg))
    /\ HasFile(fs, templateFilePath(last.arg.templateId))

\* C4 (as claimed): after an ok upsertTemplate of a payload with a table
\* component that has dynamicRouting, the page of the detail sub-route [id]
\* of the template's route exists and is the detail page of the endpointPath
\* of one of these components; an upsertTemplate of a payload without such a
\* component writes no page there.
C4_DetailPageBound ==
    (last.op = "upsertTemplate" /\ last.ok) =>
        LET page == detailPagePath(last.arg)
            tables == DynamicTables(last.arg)
        IN  IF tables # <<>>
            THEN /\ HasDir(fs, pathDirname(page))
                 /\ HasFile(fs, page)
                 /\ fs.files[page].kind = "detail"
                 /\ \E i \in 1..Len(tables) :
                        fs.files[page].endpointPath = tables[i].dataSource.endpointPath
            ELSE \A i \in 1..Len(last.trace) :
                     last.trace[i].op = "writeTextFile" => last.trace[i].path # page


---------------------------------------------------------------------------
(* layout.ts: the layout manifest and the generated lookup.                *)

str_layoutManifest_json == <<"l", "a", "y", "o", "u", "t", "M", "a", "n", "i", "f", "e", "s", "t", ".", "j", "s", "o", "n">>

layoutManifestPath == templatesDir \o <<str_layoutManifest_json>>
layoutsFile == templatesDir \o <<str_layouts_ts>>

readLayoutManifest(tree) ==
    IF Parses(tree, layoutManifestPath) THEN tree.files[layoutManifestPath].value
    ELSE [layouts |-> <<>>]

writeLayoutManifest(m, manifest) ==
    writeTextFile(m, layoutManifestPath, JSONstringify(manifest))

\* one row `'${entry.templateId}': ${JSON.stringify(entry)}` per entry
syncLayoutsTs(m, manifest) ==
    LET entries == ObjValues(manifest.layouts)
    IN  writeTextFile(m, layoutsFile,
                      [kind |-> "layouts",
                       rows |-> [i \in 1..Len(entries) |->
                                    [k |-> entries[i].templateId, v |-> entries[i]]]])

upsertLayout(m, payload) ==
    LET manifest == [layouts |-> ObjSet(readLayoutManifest(m.fs).layouts,
                                        payload.layoutId, payload)]
    IN  Returns(syncLayoutsTs(writeLayoutManifest(
                                  Membered(m, layoutManifestPath, "layouts"), manifest),
                              manifest),
                "applied.", <<payload.layoutId>>)

deleteLayout(m, layoutId) ==
    LET manifest == [layouts |-> ObjDel(readLayoutManifest(m.fs).layouts, layoutId)]
    IN  Returns(syncLayoutsTs(writeLayoutManifest(
                                  Membered(m, layoutManifestPath, "layouts"), manifest),
                              manifest),
                "removed.", <<layoutId>>)

\* the generated getLayoutForTemplate: manifest[templateId] of an object
\* literal, in which the last row of a key is the one that counts; {} is
\* undefined
getLayoutForTemplate(tree, templateId) ==
    LET rows == tree.files[layoutsFile].rows
        hits == {i \in 1..Len(rows) : rows[i].k = templateId}
    IN  {rows[i].v : i \in {i \in hits : \A j \in hits : j <= i}}

---------------------------------------------------------------------------
(* Layouts applied and removed, one call at a time, every I/O call         *)
(* succeeding.  hist.layoutFor holds, for each template, the layout most   *)
(* recently upserted for it, unless that layout was deleted since.         *)

str_b == <<"b">>

LayoutIds == {str_a, str_b}
LayoutTemplateIds == {str_a, str_list}
LayoutRouteIds == {str_a, str_more}
LayoutPayloads ==
    {[layoutId |-> l, templateId |-> t, routeId |-> r, areas |-> <<>>] :
        l \in LayoutIds, t \in LayoutTemplateIds, r \in LayoutRouteIds}

\* the layout that `layouts` holds for the template
LayoutFor(layouts, templateId) == {entry \in layouts : entry.templateId = templateId}

UpsertLayout(payload) ==
    LET m == upsertLayout(Start(NoFault), payload)
    IN  /\ Commit(m, "upsertLayout", payload)
        /\ hist' = [hist EXCEPT !.layoutFor =
                       {entry \in @ : /\ entry.templateId # payload.templateId
                                      /\ entry.layoutId # payload.layoutId}
                       \cup {payload}]
        /\ UNCHANGED clock

DeleteLayout(layoutId) ==
    LET m == deleteLayout(Start(NoFault), layoutId)
    IN  /\ Commit(m, "deleteLayout", layoutId)
        /\ hist' = [hist EXCEPT !.layoutFor =
                       {entry \in @ : entry.layoutId # layoutId}]
        /\ UNCHANGED clock

NextLayout ==
    \/ \E payload \in LayoutPayloads : UpsertLayout(payload)
    \/ \E layoutId \in LayoutIds : DeleteLayout(layoutId)

SpecLayout == Init /\ [][NextLayout]_vars

LayoutEntries == ObjValues(readLayoutManifest(fs).layouts)
LayoutRows == fs.files[layoutsFile].rows

\* C11: the layout manifest holds at most one entry per templateId, the
\* generated lookup has exactly one row per manifest entry, and
\* getLayoutForTemplate(t) returns the layout most recently upserted for the
\* template t, or nothing when that layout was deleted
C11_OneLayoutPerTemplate ==
    /\ \A i, j \in 1..Len(LayoutEntries) :
           LayoutEntries[i].templateId = LayoutEntries[j].templateId => i = j
    /\ Len(LayoutRows) = Len(LayoutEntries)
    /\ \A i \in 1..Len(LayoutRows) : LayoutRows[i].v = LayoutEntries[i]
    /\ \A t \in LayoutTemplateIds : getLayoutForTemplate(fs, t) = LayoutFor(hist.layoutFor, t)

---------------------------------------------------------------------------
(* flow/schemas.ts: what the zod schemas accept.  A JSON object is a       *)
(* record; a key it does not have is not in its domain.                    *)

NodeTypeEnum == {"table", "endpoint", "route", "template", "layout"}
OperationEnum == {"upsert", "delete"}

Has(obj, key) == key \in DOMAIN obj
\* z.string().min(1)
NonEmptyString(obj, key) == Has(obj, key) /\ obj[key] # <<>>
\* z.enum([...])
OneOf(obj, key, values) == Has(obj, key) /\ obj[key] \in values
Every(list, Schema(_)) == \A i \in 1..Len(list) : Schema(list[i])

foreignKeySchema(fk) ==
    /\ NonEmptyString(fk, "table")
    /\ NonEmptyString(fk, "column")
    /\ Has(fk, "onDelete") =>
           fk.onDelete \in {"cascade", "restrict", "set null", "no action"}

columnSchema(column) ==
    /\ NonEmptyString(column, "name")
    /\ OneOf(column, "type", {"integer", "text", "real", "boolean"})
    /\ Has(column, "fk") => Every(column.fk, foreignKeySchema)

tablePayloadSchema(payload) ==
    /\ NonEmptyString(payload, "tableName")
    /\ Has(payload, "columns")
    /\ Len(payload.columns) >= 1
    /\ Every(payload.columns, columnSchema)

whereConditionSchema(condition) ==
    /\ NonEmptyString(condition, "column")
    /\ OneOf(condition, "op", {"=", "!=", ">", ">=", "<", "<="})
    /\ NonEmptyString(condition, "source")

endpointPayloadSchema(payload) ==
    /\ OneOf(payload, "method", Methods)
    /\ NonEmptyString(payload, "path")
    /\ NonEmptyString(payload, "table")
    /\ OneOf(payload, "action", {"select", "insert", "delete"})
    /\ Has(payload, "where") => Every(payload.where, whereConditionSchema)

routePayloadSchema(payload) ==
    /\ NonEmptyString(payload, "routeId")
    /\ NonEmptyString(payload, "path")
    /\ NonEmptyString(payload, "pageName")

inputComponentSchema(component) ==
    /\ NonEmptyString(component, "id")
    /\ OneOf(component, "type", {"input", "textarea"})

buttonComponentSchema(component) ==
    /\ NonEmptyString(component, "id")
    /\ OneOf(component, "type", {"button"})

tableComponentSchema(component) ==
    /\ NonEmptyString(component, "id")
    /\ OneOf(component, "type", {"table"})
    /\ NonEmptyString(component, "tableName")
    /\ Has(component, "dataSource")
    /\ NonEmptyString(component.dataSource, "endpointPath")
    /\ NonEmptyString(component.dataSource, "primaryKey")

componentSchema(component) ==
    \/ inputComponentSchema(component)
    \/ buttonComponentSchema(component)
    \/ tableComponentSchema(component)

templatePayloadSchema(payload) ==
    /\ NonEmptyString(payload, "templateId")
    /\ NonEmptyString(payload, "routePath")
    /\ Has(payload, "components")
    /\ Every(payload.components, componentSchema)

layoutPayloadSchema(payload) ==
    /\ NonEmptyString(payload, "layoutId")
    /\ NonEmptyString(payload, "templateId")
    /\ NonEmptyString(payload, "routeId")

BaseNodeSchema(body) ==
    /\ OneOf(body, "nodeType", NodeTypeEnum)
    /\ OneOf(body, "operation", OperationEnum)

\* z.discriminatedUnion('operation', [upsert node, delete node])
NodeSchema(body, nodeType, Upsert(_), Delete(_)) ==
    /\ OneOf(body, "nodeType", {nodeType})
    /\ OneOf(body, "operation", OperationEnum)
    /\ Has(body, "payload")
    /\ IF body.operation = "upsert" THEN Upsert(body.payload)
       ELSE Delete(body.payload)

TableNodeSchema(body) ==
    NodeSchema(body, "table", tablePayloadSchema,
               LAMBDA payload : NonEmptyString(payload, "tableName"))
EndpointNodeSchema(body) ==
    NodeSchema(body, "endpoint", endpointPayloadSchema,
               LAMBDA payload : /\ NonEmptyString(payload, "path")
                                /\ OneOf(payload, "method", Methods))
RouteNodeSchema(body) ==
    NodeSchema(body, "route", routePayloadSchema,
               LAMBDA payload : NonEmptyString(payload, "path"))
TemplateNodeSchema(body) ==
    NodeSchema(body, "template", templatePayloadSchema,
               LAMBDA payload : NonEmptyString(payload, "templateId"))
LayoutNodeSchema(body) ==
    NodeSchema(body, "layout", layoutPayloadSchema,
               LAMBDA payload : NonEmptyString(payload, "layoutId"))

\* what safeParse returns as data: the defaults are filled in
nodeData(body) ==
    IF body.nodeType = "route" /\ body.operation = "upsert"
    THEN [body EXCEPT !.payload =
             [routeId |-> @.routeId, path |-> @.path, pageName |-> @.pageName,
              dynamic |-> IF Has(@, "dynamic") THEN @.dynamic ELSE FALSE]]
    ELSE IF body.nodeType = "layout" /\ body.operation = "upsert"
    THEN [body EXCEPT !.payload =
             [layoutId |-> @.layoutId, templateId |-> @.templateId,
              routeId |-> @.routeId,
              areas |-> IF Has(@, "areas") THEN @.areas ELSE <<>>]]
    ELSE body


---------------------------------------------------------------------------
(* The handlers, the dispatcher and the ingress.                           *)

handleTable(m, node) ==
    IF node.operation = "delete"
    THEN deleteTable(Called(Called(m, "handleTable"), "deleteTable"),
                     node.payload.tableName)
    ELSE upsertTable(Called(Called(m, "handleTable"), "upsertTable"), node.payload)

handleEndpoint(m, node) ==
    IF node.operation = "delete"
    THEN deleteEndpoint(Called(Called(m, "handleEndpoint"), "deleteEndpoint"),
                        node.payload.path, node.payload.method)
    ELSE upsertEndpoint(Called(Called(m, "handleEndpoint"), "upsertEndpoint"),
                        node.payload)

\* upsertRoute is not entered when ensureRoute threw
handleRoute(m, node) ==
    IF node.operation = "delete"
    THEN deleteRoute(Called(Called(m, "handleRoute"), "deleteRoute"), node.payload.path)
    ELSE LET ensured == ensureRoute(Called(Called(m, "handleRoute"), "ensureRoute"),
                                    node.payload.path)
         IN  IF Failed(ensured) THEN ensured
             ELSE upsertRoute(Called(ensured, "upsertRoute"), node.payload)

handleTemplate(m, node, order) ==
    IF node.operation = "delete"
    THEN deleteTemplate(Called(Called(m, "handleTemplate"), "deleteTemplate"),
                        node.payload.templateId)
    ELSE upsertTemplate(Called(Called(m, "handleTemplate"), "upsertTemplate"),
                        node.payload, order)

handleLayout(m, node) ==
    IF node.operation = "delete"
    THEN deleteLayout(Called(Called(m, "handleLayout"), "deleteLayout"),
                      node.payload.layoutId)
    ELSE upsertLayout(Called(Called(m, "handleLayout"), "upsertLayout"), node.payload)

\* the default branch returns { ok: false, error } without throwing
dispatchNode(m, node, order) ==
    CASE node.nodeType = "table" -> handleTable(m, node)
      [] node.nodeType = "endpoint" -> handleEndpoint(m, node)
      [] node.nodeType = "route" -> handleRoute(m, node)
      [] node.nodeType = "template" -> handleTemplate(m, node, order)
      [] node.nodeType = "layout" -> handleLayout(m, node)
      [] OTHER -> [m EXCEPT !.err = "Unsupported nodeType"]

schemaMap(nodeType, body) ==
    CASE nodeType = "table" -> TableNodeSchema(body)
      [] nodeType = "endpoint" -> EndpointNodeSchema(body)
      [] nodeType = "route" -> RouteNodeSchema(body)
      [] nodeType = "template" -> TemplateNodeSchema(body)
      [] nodeType = "layout" -> LayoutNodeSchema(body)

\* error.flatten() of a failed safeParse, and buildError of what was thrown
FieldErrors == [kind |-> "fieldErrors", text |-> ""]
buildError(error) == [kind |-> "message", text |-> error]

\* the ingress answered with NextResponse.json(body, {status})
Answer(m, status, body) ==
    [after |-> m, thrown |-> FALSE, status |-> status, body |-> body]
\* the ingress threw
Thrown(m) ==
    [after |-> m, thrown |-> TRUE, status |-> 0,
     body |-> [ok |-> FALSE, error |-> buildError(m.err)]]

\* POST without its try/catch
POST_uncaught(m, request, order) ==
    IF ~request.parses THEN Thrown([m EXCEPT !.err = "SyntaxError"])
    ELSE IF ~BaseNodeSchema(request.body)
    THEN Answer(m, 400, [ok |-> FALSE, error |-> FieldErrors])
    ELSE IF ~schemaMap(request.body.nodeType, request.body)
    THEN Answer(m, 400, [ok |-> FALSE, error |-> FieldErrors])
    ELSE LET Settled(ran) ==
                 IF Failed(ran) THEN Thrown(ran)
                 ELSE Answer(ran, 200, [ok |-> TRUE, message |-> ran.result])
         IN  Settled(dispatchNode(m, nodeData(request.body), order))

\* POST without the check of the node against the schema of its nodeType
POST_unchecked(m, request, order) ==
    IF ~request.parses
    THEN Answer(m, 500, [ok |-> FALSE, error |-> buildError("SyntaxError")])
    ELSE IF ~BaseNodeSchema(request.body)
    THEN Answer(m, 400, [ok |-> FALSE, error |-> FieldErrors])
    ELSE LET Settled(ran) ==
                 IF Failed(ran)
                 THEN Answer(ran, 500, [ok |-> FALSE, error |-> buildError(ran.err)])
                 ELSE Answer(ran, 200, [ok |-> TRUE, message |-> ran.result])
         IN  Settled(dispatchNode(m, request.body, order))

\* request.json() rejects on a body that is not JSON; whatever is thrown
\* inside the try block is answered with status 500
POST(m, request, order) ==
    IF ~request.parses
    THEN Answer(m, 500, [ok |-> FALSE, error |-> buildError("SyntaxError")])
    ELSE IF ~BaseNodeSchema(request.body)
    THEN Answer(m, 400, [ok |-> FALSE, error |-> FieldErrors])
    ELSE IF ~schemaMap(request.body.nodeType, request.body)
    THEN Answer(m, 400, [ok |-> FALSE, error |-> FieldErrors])
    ELSE LET Settled(ran) ==
                 IF Failed(ran)
                 THEN Answer(ran, 500, [ok |-> FALSE, error |-> buildError(ran.err)])
                 ELSE Answer(ran, 200, [ok |-> TRUE, message |-> ran.result])
         IN  Settled(dispatchNode(m, nodeData(request.body), order))


---------------------------------------------------------------------------
(* Requests to the ingress, one at a time; any one step of the handler     *)
(* that runs may fail.  A request is of one of four classes:               *)
(*   valid        accepted by BaseNodeSchema and by the schema of its      *)
(*                nodeType                                                 *)
(*   mismatched   accepted by BaseNodeSchema only                          *)
(*   malformed    JSON that BaseNodeSchema rejects                         *)
(*   unparseable  not JSON                                                 *)

str_hello == <<"h", "e", "l", "l", "o">>

Node(nodeType, operation, payload) ==
    [nodeType |-> nodeType, operation |-> operation, payload |-> payload]

EndpointGet ==
    [method |-> "GET", path |-> str_path_todos, table |-> str_todos,
     action |-> "select", fieldMapping |-> <<>>, where |-> WhereId(str_query_id)]

ValidBodies ==
    {Node("table", "upsert", TablePayload(str_t, <<colId, colTitle>>)),
     Node("table", "delete", [tableName |-> str_t]),
     Node("endpoint", "upsert", EndpointGet),
     Node("endpoint", "delete", [path |-> str_path_todos, method |-> "GET"]),
     Node("route", "upsert",
          [routeId |-> str_a, path |-> str_route_t, pageName |-> str_list]),
     Node("route", "delete", [path |-> str_route_t]),
     Node("template", "upsert",
          TemplatePayload(str_a, str_route_t,
                          <<TableComponent(str_list, str_api_todos, TRUE)>>)),
     Node("template", "delete", [templateId |-> str_a]),
     Node("layout", "upsert",
          [layoutId |-> str_a, templateId |-> str_a, routeId |-> str_a]),
     Node("layout", "delete", [layoutId |-> str_a])}

\* an empty column list, a method outside the enumeration, an empty path, a
\* component of no known type, an empty layoutId
MismatchedBodies ==
    {Node("table", "upsert", TablePayload(str_t, <<>>)),
     Node("endpoint", "delete", [path |-> str_path_todos, method |-> "PUT"]),
     Node("route", "upsert",
          [routeId |-> str_a, path |-> <<>>, pageName |-> str_list]),
     Node("template", "upsert",
          TemplatePayload(str_a, str_route_t, <<[id |-> str_name, type |-> "chart"]>>)),
     Node("layout", "delete", [layoutId |-> <<>>])}

\* an object without nodeType, an unknown nodeType, an unknown operation
MalformedBodies ==
    {[hello |-> str_hello],
     Node("widget", "upsert", [tableName |-> str_t]),
     Node("table", "patch", TablePayload(str_t, <<colId, colTitle>>))}

Request(class, body) == [parses |-> class # "unparseable", class |-> class, body |-> body]

Requests ==
    {Request("valid", body) : body \in ValidBodies}
    \cup {Request("mismatched", body) : body \in MismatchedBodies}
    \cup {Request("malformed", body) : body \in MalformedBodies}
    \cup {Request("unparseable", [hello |-> str_hello])}

\* the orders open to the concurrent calls of the request's handler
RequestOrders(request) ==
    IF request.class = "valid" /\ request.body.nodeType = "template"
       /\ request.body.operation = "upsert"
    THEN Orders(Len(DynamicTables(request.body.payload)))
    ELSE {<<>>}

Post(request, order, env) ==
    /\ hist.requests < MaxRequests
    /\ \E answer \in {POST(Start(env), request, order)} :
           /\ fs' = answer.after.fs
           /\ storage' = answer.after.storage
           /\ last' = [op |-> "POST", arg |-> request, ok |-> answer.body.ok,
                       err |-> answer.after.err, trace |-> answer.after.trace,
                       calls |-> answer.after.calls, thrown |-> answer.thrown,
                       status |-> answer.status, body |-> answer.body]
    /\ hist' = [hist EXCEPT !.requests = @ + 1]
    /\ UNCHANGED <<clock, inflight>>

Next ==
    \E request \in Requests :
        \E order \in RequestOrders(request) :
            \E env \in Envs(POST(Start(NoFault), request, order).after) :
                Post(request, order, env)

Spec == Init /\ [][Next]_vars

handlerOf(nodeType) ==
    CASE nodeType = "table" -> "handleTable"
      [] nodeType = "endpoint" -> "handleEndpoint"
      [] nodeType = "route" -> "handleRoute"
      [] nodeType = "template" -> "handleTemplate"
      [] nodeType = "layout" -> "handleLayout"

functionOf(nodeType, operation) ==
    CASE nodeType = "table" -> IF operation = "delete" THEN "deleteTable" ELSE "upsertTable"
      [] nodeType = "endpoint" ->
             IF operation = "delete" THEN "deleteEndpoint" ELSE "upsertEndpoint"
      [] nodeType = "route" -> IF operation = "delete" THEN "deleteRoute" ELSE "upsertRoute"
      [] nodeType = "template" ->
             IF operation = "delete" THEN "deleteTemplate" ELSE "upsertTemplate"
      [] nodeType = "layout" -> IF operation = "delete" THEN "deleteLayout" ELSE "upsertLayout"

\* C6: a request enters a handler exactly when it is valid; the handler is
\* the one of its nodeType and enters the delete function for operation
\* delete and the upsert function otherwise (handleRoute after ensureRoute,
\* unless that threw); a request that fails one of the two validations is
\* answered {ok: false, error} with status 400, no step is made and the tree
\* and the database stay as they were.
C6_DispatchIffValid ==
    [][last'.op = "POST" =>
          LET request == last'.arg
              calls == last'.calls
          IN  /\ (calls # <<>>) <=> (request.class = "valid")
              /\ request.class = "valid" =>
                    LET nodeType == request.body.nodeType
                        operation == request.body.operation
                        ensures == nodeType = "route" /\ operation = "upsert"
                    IN  /\ calls[1] = handlerOf(nodeType)
                        /\ \A i \in 2..Len(calls) :
                               \/ calls[i] = functionOf(nodeType, operation)
                               \/ ensures /\ i = 2 /\ calls[i] = "ensureRoute"
                        /\ Len(calls) = IF ensures /\ last'.ok THEN 3
                                        ELSE IF ensures THEN Len(calls) ELSE 2
                        /\ last'.ok => functionOf(nodeType, operation) \in Range(calls)
              /\ request.class \in {"mismatched", "malformed"} =>
                    /\ last'.status = 400
                    /\ ~last'.body.ok
                    /\ Has(last'.body, "error")
              /\ request.class # "valid" =>
                    /\ last'.trace = <<>>
                    /\ fs' = fs
                    /\ storage' = storage]_vars

\* C6 witness: after an earlier request changed the tree, a request that
\* only the schema of its nodeType rejects was answered with status 400.
C6_Witness ==
    /\ last.op = "POST" /\ last.arg.class = "mismatched"
    /\ last.status = 400 /\ last.calls = <<>>
    /\ fs # InitialTree

IsSwallowed(ev) == ev.op = "moveFile" /\ "deleteRoute" \in Range(last.calls)

\* the envelope of the answer to the last request
C7_Envelope ==
    /\ ~last.thrown
    /\ \/ /\ DOMAIN last.body = {"ok", "message"}
          /\ last.body.ok /\ last.status = 200 /\ last.body.message.text # ""
       \/ /\ DOMAIN last.body = {"ok", "error"}
          /\ ~last.body.ok /\ last.status \in {400, 500}

C7_Reported(ev) ==
    /\ ~last.body.ok /\ last.status = 500
    /\ last.body.error = buildError(ev.err)

\* C7 (as claimed): every request is answered with one envelope, and when a
\* step of the handler failed the answer is {ok: false, error: <message>}.
C7_EveryFailureReported ==
    last.op = "POST" =>
        /\ C7_Envelope
        /\ \A i \in 1..Len(last.trace) :
               last.trace[i].err # NoErr => C7_Reported(last.trace[i])

\* C7 (amended): every request is answered with one envelope, {ok: true,
\* message} with status 200 or {ok: false, error} with status 400 or 500,
\* and nothing is thrown; when a step of the handler failed the answer is
\* {ok: false, error: <message>} with status 500, except that a failed move
\* of the route directory in deleteRoute is ignored.
C7_FailureReportedUnlessIgnored ==
    last.op = "POST" =>
        /\ C7_Envelope
        /\ \A i \in 1..Len(last.trace) :
               (last.trace[i].err # NoErr /\ ~IsSwallowed(last.trace[i]))
                   => C7_Reported(last.trace[i])
        /\ \A i \in 1..Len(last.trace) :
               (last.trace[i].err # NoErr /\ IsSwallowed(last.trace[i]))
                   => last.body.ok

\* C7 witness: the migration step of a table request failed and the answer
\* is the error envelope with its message.
C7_Witness ==
    /\ last.op = "POST" /\ last.arg.class = "valid"
    /\ last.trace # <<>>
    /\ last.trace[Len(last.trace)].op = "run"
    /\ last.trace[Len(last.trace)].err # NoErr
    /\ last.status = 500 /\ ~last.body.ok
    /\ last.body.error.text = last.trace[Len(last.trace)].err


---------------------------------------------------------------------------
(* Upserts of each kind over manifests that are missing or were damaged    *)
(* outside the program: not JSON, the JSON text null, or (where the        *)
(* entries are kept in a member) an object without that member.  Every I/O *)
(* call succeeds.                                                          *)

MemberlessBody == JSONstringify([version |-> 1])
\* no file, or a file with one of the bodies
Damaged(bodies) == {<<>>} \cup {<<body>> : body \in bodies}

WithFile(tree, p, state) ==
    IF state = <<>> THEN tree
    ELSE [WithDirs(tree, pathDirname(p)) EXCEPT !.files = (p :> state[1]) @@ @]

DamagedTrees ==
    {WithFile(WithFile(WithFile(WithFile(InitialTree,
                                         endpointManifestPath, e),
                                routeManifestPath, r),
                       templateManifestPath, t),
              layoutManifestPath, l) :
        e \in Damaged({TextBody, NullBody}),
        r \in Damaged({TextBody, NullBody}),
        t \in Damaged({TextBody, NullBody, MemberlessBody}),
        l \in Damaged({TextBody, NullBody, MemberlessBody})}

InitDamaged ==
    /\ fs \in DamagedTrees
    /\ storage = {}
    /\ clock = 0
    /\ last = NoOp
    /\ hist = InitialHist
    /\ inflight = NoCalls

RouteList == [routeId |-> str_a, path |-> str_route_t, pageName |-> str_list,
              dynamic |-> FALSE]
TemplateForm == TemplatePayload(str_a, str_route_t, <<InputComponent(str_name)>>)
LayoutA == [layoutId |-> str_a, templateId |-> str_a, routeId |-> str_a,
            areas |-> <<>>]

UpsertRoute(payload) ==
    LET m == upsertRoute(Start(NoFault), payload)
    IN  /\ Commit(m, "upsertRoute", payload)
        /\ UNCHANGED <<clock, hist>>

NextDamaged ==
    \/ UpsertEndpoint(EndpointGet, NoFault)
    \/ UpsertRoute(RouteList)
    \/ UpsertTemplate(TemplateForm, <<>>, NoFault)
    \/ UpsertLayout(LayoutA)

SpecDamaged == InitDamaged /\ [][NextDamaged]_vars

\* the manifest of an operation, and the manifest that holds its entry only
ManifestOf(op) ==
    CASE op = "upsertEndpoint" -> endpointManifestPath
      [] op = "upsertRoute" -> routeManifestPath
      [] op = "upsertTemplate" -> templateManifestPath
      [] op = "upsertLayout" -> layoutManifestPath

Entry(k, v) == <<[k |-> k, v |-> v]>>
OnlyEntry(op) ==
    CASE op = "upsertEndpoint" ->
             Entry(normalizeApiPath(EndpointGet.path), Entry("GET", EndpointGet))
      [] op = "upsertRoute" -> Entry(normalizeRoutePath(RouteList.path), RouteList)
      [] op = "upsertTemplate" ->
             [templates |-> Entry(str_a, [templateId |-> str_a,
                                          routePath |-> TemplateForm.routePath])]
      [] op = "upsertLayout" -> [layouts |-> Entry(str_a, LayoutA)]

\* the manifest file is missing, is not JSON, or is JSON of another shape
IsDamaged(tree, p) ==
    \/ ~HasFile(tree, p)
    \/ tree.files[p] \in {TextBody, NullBody, MemberlessBody}
\* the manifest file is missing or is not JSON
IsUnreadable(tree, p) == ~HasFile(tree, p) \/ tree.files[p] = TextBody

\* C12: an upsert of any kind that finds its manifest absent or corrupt
\* (unparsable, or parsing to a value of another shape) reports ok and
\* writes a manifest that holds exactly the upserted entry
C12_DamagedManifestIsEmpty ==
    [][IsDamaged(fs, ManifestOf(last'.op)) =>
           /\ last'.ok
           /\ fs'.files[ManifestOf(last'.op)] = JSONstringify(OnlyEntry(last'.op))]_vars


---------------------------------------------------------------------------
(* The generated handlers at run time.  A JavaScript value is a record     *)
(* with its type; a request carries its JSON body (if it has one), its     *)
(* query parameters and the parameters of the dynamic path segments.       *)

Undefined == [type |-> "undefined"]
Null == [type |-> "null"]
Str(text) == [type |-> "string", text |-> text]
Object(obj) == [type |-> "object", obj |-> obj]
Truthy(value) ==
    \/ value.type = "object"
    \/ value.type = "string" /\ value.text # <<>>

str_body == <<"b", "o", "d", "y">>
str_query == <<"q", "u", "e", "r", "y">>
str_params == <<"p", "a", "r", "a", "m", "s">>

\* Array.prototype.join('.')
RECURSIVE JoinDots(_)
JoinDots(parts) ==
    IF parts = <<>> THEN <<>>
    ELSE IF Len(parts) = 1 THEN parts[1]
    ELSE parts[1] \o str_dot \o JoinDots(Tail(parts))

\* rest.reduce((acc, key) => (acc ? acc[key] : undefined), bag.body)
RECURSIVE Reduce(_, _)
Reduce(acc, keys) ==
    IF keys = <<>> THEN acc
    ELSE Reduce(IF Truthy(acc) /\ acc.type = "object" /\ ObjHas(acc.obj, Head(keys))
                THEN ObjGet(acc.obj, Head(keys))
                ELSE Undefined,
                Tail(keys))

\* URLSearchParams.get(name) ?? undefined, and params[name]
Lookup(obj, name) == IF ObjHas(obj, name) THEN Str(ObjGet(obj, name)) ELSE Undefined

readFromSource(source, bag) ==
    IF source = <<>> THEN Undefined
    ELSE LET parts == Split(source, ".")
             scope == Head(parts)
             rest == Tail(parts)
         IN  CASE scope = str_body -> Reduce(bag.body, rest)
               [] scope = str_query -> Lookup(bag.query, JoinDots(rest))
               [] scope = str_params -> Lookup(bag.params, JoinDots(rest))
               [] OTHER -> Undefined

\* the bag a handler builds: the body is read only when the handler needs it
SourceBag(handler, request) ==
    [body |-> IF handler.requiresBody THEN request.body ELSE Undefined,
     query |-> request.query, params |-> request.params]

\* the filters pushed: the conditions whose value is neither undefined nor null
Pushed(handler, bag) ==
    LET value(i) == readFromSource(handler.filters[i].source, bag)
        given(i) == value(i).type \notin {"undefined", "null"}
        kept == Filter([i \in 1..Len(handler.filters) |-> i], given)
    IN  [n \in 1..Len(kept) |->
            [handler.filters[kept[n]].expr EXCEPT !.value = value(kept[n])]]

\* filters.length === 0 ? undefined : filters.length === 1 ? filters[0] : and(...filters)
WhereClause(filters) ==
    IF filters = <<>> THEN Undefined
    ELSE IF Len(filters) = 1 THEN filters[1]
    ELSE [type |-> "and", args |-> filters]

\* NextResponse.json(body, {status}) after the storage operations `ran`
Responded(status, body, ran) == [status |-> status, body |-> body, ran |-> ran]
\* the catch block of a handler
Caught(message, ran) ==
    Responded(500, [ok |-> FALSE, error |-> message], ran)

\* a delete handler without the check of its where clause
runHandler_unguarded(handler, request) ==
    LET bag == SourceBag(handler, request)
        whereClause == WhereClause(Pushed(handler, bag))
    IN  IF handler.requiresBody /\ ~request.parses THEN Caught("SyntaxError", <<>>)
        ELSE Responded(200, [ok |-> TRUE],
                       <<[op |-> handler.action, table |-> handler.table,
                          where |-> whereClause]>>)

\* the exported function of a method: request.json() throws on a body that
\* is not JSON, and whatever is thrown is answered with status 500
runHandler(handler, request) ==
    LET bag == SourceBag(handler, request)
        whereClause == WhereClause(Pushed(handler, bag))
    IN  IF handler.requiresBody /\ ~request.parses THEN Caught("SyntaxError", <<>>)
        ELSE CASE handler.action = "select" ->
                      Responded(200, [ok |-> TRUE],
                                <<[op |-> "select", table |-> handler.table,
                                   where |-> whereClause]>>)
               [] handler.action = "insert" ->
                      Responded(200, [ok |-> TRUE],
                                <<[op |-> "insert", table |-> handler.table,
                                   values |-> [i \in 1..Len(handler.values) |->
                                       [k |-> handler.values[i].column,
                                        v |-> readFromSource(handler.values[i].source,
                                                             bag)]]]>>)
               [] handler.action = "delete" ->
                      IF whereClause = Undefined
                      THEN Caught("Delete endpoint requires a where clause.", <<>>)
                      ELSE Responded(200, [ok |-> TRUE],
                                     <<[op |-> "delete", table |-> handler.table,
                                        where |-> whereClause]>>)


---------------------------------------------------------------------------
(* Endpoints of one path upserted and served, one call at a time, every    *)
(* I/O call succeeding.  The payloads are those validation accepts: where  *)
(* and fieldMapping are optional, for every action.                        *)

str_query_title == <<"q", "u", "e", "r", "y", ".", "t", "i", "t", "l", "e">>
str_one == <<"1">>

WhereTitle(source) == <<[column |-> str_title, op |-> "=", source |-> source]>>

Endpoint(method, action) ==
    [method |-> method, path |-> str_path_t_id, table |-> str_todos, action |-> action]
Where(config, where) ==
    [method |-> config.method, path |-> config.path, table |-> config.table,
     action |-> config.action, where |-> where]

ServedPayloads ==
    {Endpoint("GET", "select"),
     Where(Endpoint("GET", "select"),
           WhereId(str_params_id) \o WhereTitle(str_query_title)),
     Endpoint("DELETE", "delete"),
     Where(Endpoint("DELETE", "delete"), <<>>),
     Where(Endpoint("DELETE", "delete"), WhereTitle(str_query_title)),
     Where(Endpoint("DELETE", "delete"), WhereTitle(str_body_title)),
     Where(Endpoint("DELETE", "delete"),
           WhereId(str_params_id) \o WhereTitle(str_query_title)),
     [method |-> "POST", path |-> str_path_t_id, table |-> str_todos,
      action |-> "insert",
      fieldMapping |-> <<[column |-> str_title, source |-> str_body_title]>>]}

\* requests to /api/t/1: with or without ?title=a, and with no JSON body, the
\* body {"title":"a"} or the body {"title":null}
ServedBodies ==
    {[parses |-> FALSE, body |-> Undefined],
     [parses |-> TRUE, body |-> Object(<<[k |-> str_title, v |-> Str(str_a)]>>)],
     [parses |-> TRUE, body |-> Object(<<[k |-> str_title, v |-> Null]>>)]}
ServedQueries == {<<>>, <<[k |-> str_title, v |-> str_a]>>}
ServedRequests ==
    {[parses |-> b.parses, body |-> b.body, query |-> q,
      params |-> <<[k |-> str_id, v |-> str_one]>>] :
        b \in ServedBodies, q \in ServedQueries}

servedKey == normalizeApiPath(str_path_t_id)

\* the framework calls the function that route.ts exports for the method
Serve(method, request) ==
    /\ HasFile(fs, routeFilePath(servedKey))
    /\ fs.files[routeFilePath(servedKey)].kind = "route"
    /\ \E handler \in Range(fs.files[routeFilePath(servedKey)].handlers) :
           /\ handler.method = method
           /\ \E answer \in {runHandler(handler, request)} :
                  last' = [op |-> "serve", arg |-> request, method |-> method,
                           ok |-> answer.body.ok, status |-> answer.status,
                           body |-> answer.body, ran |-> answer.ran,
                           config |-> ObjGet(ObjGet(readEndpointManifest(fs), servedKey),
                                             method)]
    /\ UNCHANGED <<fs, storage, clock, hist, inflight>>

NextServe ==
    \/ \E payload \in ServedPayloads : UpsertEndpoint(payload, NoFault)
    \/ \E method \in Methods, request \in ServedRequests : Serve(method, request)

SpecServe == Init /\ [][NextServe]_vars

\* C13: an endpoint upsert whose action is delete and whose where list is
\* absent or empty is reported as not ok and changes no file
C13_DeleteWithoutWhereRejected ==
    [][(/\ last'.op = "upsertEndpoint"
        /\ last'.arg.action = "delete"
        /\ whereOf(last'.arg) = <<>>)
       => ~last'.ok /\ fs' = fs]_vars

\* what the request gives for the source of each condition the served
\* endpoint declares
DeclaredWhere == whereOf(last.config)
DeclaredValue(i) ==
    readFromSource(DeclaredWhere[i].source,
                   [body |-> IF (needsBody(last.config) \/ last.config.action = "insert")
                                /\ last.arg.parses
                             THEN last.arg.body ELSE Undefined,
                    query |-> last.arg.query, params |-> last.arg.params])
EffectiveFilterEmpty ==
    \A i \in 1..Len(DeclaredWhere) : DeclaredValue(i) \in {Undefined, Null}

\* C18: a generated delete handler never runs the storage delete without a
\* filter; when the effective filter is empty (no condition declared, or
\* every declared source undefined or null in the request) it runs no
\* storage operation and answers {ok: false, error} with status 500
C18_DeleteNeverUnfiltered ==
    (last.op = "serve" /\ last.config.action = "delete") =>
        /\ \A i \in 1..Len(last.ran) : last.ran[i].where # Undefined
        /\ EffectiveFilterEmpty =>
               /\ last.ran = <<>>
               /\ last.status = 500
               /\ ~last.body.ok
               /\ "error" \in DOMAIN last.body

\* a delete endpoint that declares conditions was served a request in which
\* none of them has a value
C18_Witness ==
    /\ last.op = "serve"
    /\ last.config.action = "delete"
    /\ DeclaredWhere # <<>>
    /\ last.arg.parses
    /\ EffectiveFilterEmpty
    /\ last.status = 500

\* the conjuncts of a where clause
Conjuncts(whereClause) ==
    IF whereClause = Undefined THEN <<>>
    ELSE IF "args" \in DOMAIN whereClause THEN whereClause.args
    ELSE <<whereClause>>

\* C19: the filter of the storage operation that a select or delete handler
\* with k >= 1 declared conditions runs is the AND of all k comparator
\* expressions, each comparing its column with the value of its source
C19_AllConditionsApplied ==
    (/\ last.op = "serve"
     /\ last.config.action \in {"select", "delete"}
     /\ Len(DeclaredWhere) >= 1) =>
        \A n \in 1..Len(last.ran) :
            Conjuncts(last.ran[n].where) =
                [i \in 1..Len(DeclaredWhere) |->
                    [fn |-> comparatorOf(DeclaredWhere[i].op),
                     table |-> toIdentifier(last.config.table),
                     column |-> toIdentifier(DeclaredWhere[i].column),
                     value |-> DeclaredValue(i)]]


---------------------------------------------------------------------------
(* Calls of upsertTemplate that run concurrently.  A call gives way to the *)
(* other calls at each of its awaits and runs alone between two awaits.    *)
(* Every I/O call succeeds.  hist.wrote names the caller that wrote the    *)
(* manifest last and the caller that wrote the template file last.         *)

\* the awaits of upsertTemplate, in order
TemplateAwaits ==
    <<"readManifest", "ensureRoute", "ensureDynamicPages", "writeManifest",
      "ensureDir", "writeTextFile", "updateRegistry">>

\* two payloads of one templateId, of different routes and components
RacedPayloads ==
    {TemplatePayload(str_a, str_route_t, <<InputComponent(str_name)>>),
     TemplatePayload(str_a, str_more, <<InputComponent(str_list)>>)}

templateEntry(payload) ==
    [templateId |-> payload.templateId, routePath |-> payload.routePath]

\* a call that writes the manifest on disk back when it has the entry already
heldManifest_keepsEntry(call, tree) ==
    IF ObjHas(readTemplateManifest(tree).templates, call.payload.templateId)
    THEN readTemplateManifest(tree)
    ELSE call.manifest

\* the manifest a call writes: the object it read and changed in memory
heldManifest(call, tree) == call.manifest

\* what the call does from the await it is at to its next one
awaited(call, m, order) ==
    CASE call.at = "readManifest" -> Membered(m, templateManifestPath, "templates")
      [] call.at = "ensureRoute" -> ensureRoute(m, call.payload.routePath)
      [] call.at = "ensureDynamicPages" -> ensureDynamicPages(m, call.payload, order)
      [] call.at = "writeManifest" ->
             writeTemplateManifest(m, heldManifest(call, m.fs))
      [] call.at = "ensureDir" ->
             ensureDir(m, pathDirname(templateFilePath(call.payload.templateId)))
      [] call.at = "writeTextFile" ->
             writeTextFile(m, templateFilePath(call.payload.templateId),
                           buildTemplateFile(call.payload))
      [] call.at = "updateRegistry" -> updateRegistry(m, heldManifest(call, m.fs))

AwaitAfter(at) ==
    TemplateAwaits[1 + CHOOSE n \in 1..Len(TemplateAwaits) : TemplateAwaits[n] = at]

\* the call after the step that left m
Resumed(call, m) ==
    IF Failed(m)
    THEN [pc |-> "done", ok |-> FALSE, payload |-> call.payload]
    ELSE IF call.at = "updateRegistry"
    THEN [pc |-> "done", ok |-> TRUE, payload |-> call.payload]
    ELSE [call EXCEPT
             !.at = AwaitAfter(@),
             !.manifest =
                 IF call.at = "readManifest"
                 THEN [templates |-> ObjSet(readTemplateManifest(m.fs).templates,
                                            call.payload.templateId,
                                            templateEntry(call.payload))]
                 ELSE @]

CallUpsertTemplate(caller, payload) ==
    /\ inflight[caller] = Idle
    /\ inflight' = [inflight EXCEPT ![caller] =
                       [pc |-> "running", at |-> "readManifest", payload |-> payload,
                        manifest |-> [templates |-> <<>>]]]
    /\ UNCHANGED <<fs, storage, clock, last, hist>>

Resume(caller) ==
    /\ inflight[caller].pc = "running"
    /\ \E order \in IF inflight[caller].at = "ensureDynamicPages"
                    THEN Orders(Len(DynamicTables(inflight[caller].payload)))
                    ELSE {<<>>} :
           \E m \in {awaited(inflight[caller], Start(NoFault), order)} :
               /\ fs' = m.fs
               /\ storage' = m.storage
               /\ inflight' = [inflight EXCEPT ![caller] = Resumed(@, m)]
               /\ hist' = IF Failed(m) THEN hist
                          ELSE IF inflight[caller].at = "writeManifest"
                          THEN [hist EXCEPT !.wrote.manifest = caller]
                          ELSE IF inflight[caller].at = "writeTextFile"
                          THEN [hist EXCEPT !.wrote.artifact = caller]
                          ELSE hist
    /\ UNCHANGED <<clock, last>>

NextRace ==
    \/ \E caller \in Callers, payload \in RacedPayloads :
           CallUpsertTemplate(caller, payload)
    \/ \E caller \in Callers : Resume(caller)

SpecRace == Init /\ [][NextRace]_vars

AllReturnedOk == \A caller \in Callers : inflight[caller].pc = "done" /\ inflight[caller].ok
\* the entry and the artifact that the caller's payload gives
EntryOf(caller) == templateEntry(inflight[caller].payload)
ArtifactOf(caller) == buildTemplateFile(inflight[caller].payload)
RacedManifest == readTemplateManifest(fs).templates

\* C14: when upserts of one templateId have run concurrently and all have
\* reported ok, the manifest entry is that of the call that wrote the
\* manifest last and the artifact is that of the call that wrote the template
\* file last; nothing makes these the same call, so the manifest entry can be
\* the one of P2 while the artifact is the one generated from P1
\* (C14_Witness)
C14_LaterWriteStays ==
    AllReturnedOk =>
        /\ ObjGet(RacedManifest, str_a) = EntryOf(hist.wrote.manifest)
        /\ fs.files[templateFilePath(str_a)] = ArtifactOf(hist.wrote.artifact)

\* both calls reported ok; the manifest has the entry of one payload and the
\* template file is generated from the other
C14_Witness ==
    /\ AllReturnedOk
    /\ \E p1, p2 \in Callers :
           /\ EntryOf(p1) # EntryOf(p2)
           /\ ArtifactOf(p1) # ArtifactOf(p2)
           /\ hist.wrote.manifest = p2
           /\ ObjGet(RacedManifest, str_a) = EntryOf(p2)
           /\ fs.files[templateFilePath(str_a)] = ArtifactOf(p1)


---------------------------------------------------------------------------
(* The concurrent ensure-calls of one upsertTemplate.                      *)

\* the files that the ensure-calls of the call wrote, in the order of the
\* writes: what was written before the template manifest
RECURSIVE EnsureWrites(_)
EnsureWrites(trace) ==
    IF trace = <<>> THEN <<>>
    ELSE IF Head(trace).op = "writeTextFile"
    THEN IF Head(trace).path = templateManifestPath THEN <<>>
         ELSE <<Head(trace).path>> \o EnsureWrites(Tail(trace))
    ELSE EnsureWrites(Tail(trace))

\* C15: the ensure-calls that one upsertTemplate issues for its dynamically
\* routed table components write pairwise different files, and the tree the
\* call leaves is the same for every order in which they get to their writes
C15_EnsureCallsDisjoint ==
    [][(last'.op = "upsertTemplate" /\ last'.ok) =>
           /\ \A i, j \in 1..Len(EnsureWrites(last'.trace)) :
                  EnsureWrites(last'.trace)[i] = EnsureWrites(last'.trace)[j] => i = j
           /\ \A order \in Orders(Len(DynamicTables(last'.arg))) :
                  upsertTemplate(Start(NoFault), last'.arg, order).fs = fs']_vars


---------------------------------------------------------------------------
(* Routes upserted and deleted under the spellings of one path, one call   *)
(* at a time, every I/O call succeeding, while time passes.                *)

str_t_bare == <<"t">>
str_route_t_slash == <<"/", "t", "/">>

\* /t, t, t/ and /t/
RouteSpellings == {str_route_t, str_t_bare, str_route_t_bare, str_route_t_slash}
SpelledRoutes ==
    {[routeId |-> str_a, path |-> path, pageName |-> str_list, dynamic |-> FALSE] :
        path \in RouteSpellings}

DeleteRoute(routePath) ==
    LET m == deleteRoute(Start(NoFault), routePath)
    IN  /\ Commit(m, "deleteRoute", routePath)
        /\ UNCHANGED <<clock, hist>>

NextRoute ==
    \/ \E payload \in SpelledRoutes : UpsertRoute(payload)
    \/ \E routePath \in RouteSpellings : DeleteRoute(routePath)
    \/ Tick

SpecRoute == Init /\ [][NextRoute]_vars

RouteKeys == Range(ObjKeys(readRouteManifest(fs)))

\* C16: the manifest key of a route path starts with '/' and, the root
\* excepted, does not end with '/', so that spellings of a path that differ
\* by a missing leading slash or by a trailing slash have one key: after an
\* ok deleteRoute no manifest entry is left for any spelling of the path
C16_RouteKeyNormalized ==
    /\ \A key \in RouteKeys :
           /\ StartsWith(key, str_slash)
           /\ key = str_slash \/ ~EndsWith(key, str_slash)
    /\ (last.op = "deleteRoute" /\ last.ok) =>
           \A key \in RouteKeys : rawSegments(key) # rawSegments(last.arg)


---------------------------------------------------------------------------
(* Routes with parameters upserted, one call at a time, every I/O call     *)
(* succeeding.  A path is a non-empty string, which is all that validation *)
(* asks of it.                                                             *)

str_route_a_t_b == <<"/", ":", "a", "/", "t", "/", ":", "b">>
str_route_id_up == <<"/", ":", "i", "d", "/", ".", ".">>

\* /t, /t/:id, /:a/t/:b and /:id/..
ParamPaths == {str_route_t, str_path_t_id, str_route_a_t_b, str_route_id_up}
ParamRoutes ==
    {[routeId |-> str_a, path |-> path, pageName |-> str_list, dynamic |-> FALSE] :
        path \in ParamPaths}

NextRouteParams == \E payload \in ParamRoutes : UpsertRoute(payload)
SpecRouteParams == Init /\ [][NextRouteParams]_vars

IsParam(segment) == segment # <<>> /\ segment[1] = ":"
IsBracketed(segment) ==
    Len(segment) >= 2 /\ segment[1] = "[" /\ segment[Len(segment)] = "]"
\* the file a call wrote last, and the route directory it stands in, below
\* src/app
PageWritten == last.trace[Len(last.trace)].path
DirWritten == Drop(pathDirname(PageWritten), Len(appDir))
\* '/' followed by the first k segments joined by '/'
RECURSIVE Joined(_, _)
Joined(segments, k) ==
    IF k = 0 THEN <<>> ELSE Joined(segments, k - 1) \o <<"/">> \o segments[k]

\* C17: the directory of a route has a bracketed segment [name] exactly at
\* the position of each :name segment of the path, and the page has one
\* breadcrumb per non-empty segment of the path, the k-th with the href of
\* the first k segments
C17_ParamsBracketedInPlace ==
    (last.op = "upsertRoute" /\ last.ok) =>
        LET segments == Filter(Split(last.arg.path, "/"), LAMBDA s : s # <<>>)
        IN  /\ IsPrefix(appDir, pathDirname(PageWritten))
            /\ Len(DirWritten) = Len(segments)
            /\ \A i \in 1..Len(segments) :
                   IF IsParam(segments[i])
                   THEN DirWritten[i] = <<"[">> \o Tail(segments[i]) \o <<"]">>
                   ELSE ~IsBracketed(DirWritten[i])
            /\ Len(fs.files[PageWritten].crumbs) = Len(segments)
            /\ \A k \in 1..Len(segments) :
                   fs.files[PageWritten].crumbs[k].href = Joined(segments, k)


---------------------------------------------------------------------------
(* Tables whose names are not identifiers: 1t begins with a digit and t-x  *)
(* holds a character outside [a-zA-Z0-9_].  Validation asks a table name   *)
(* to be a non-empty string.                                               *)

str_1t == <<"1", "t">>
str_t_x == <<"t", "-", "x">>
OddlyNamedPayloads ==
    {TablePayload(str_1t, <<colId>>), TablePayload(str_t_x, <<colId>>)}

NextOddNames == TableCalls(OddlyNamedPayloads)
SpecOddNames == Init /\ [][NextOddNames]_vars

\* the identifiers the DROP TABLE statements of the last call named
Dropped ==
    {last.trace[i].path : i \in {j \in 1..Len(last.trace) : last.trace[j].op = "dropTable"}}

\* C20: the identifier that deleteTable names in DROP TABLE IF EXISTS is the
\* identifier that table synthesis gives the table name
C20_DropNamesSynthesizedIdentifier ==
    last.op = "deleteTable" => \A dropped \in Dropped : dropped = <<toIdentifier(last.arg)>>


---------------------------------------------------------------------------
(* Endpoints at two paths whose manifest keys differ, upserted and         *)
(* deleted one call at a time, every I/O call succeeding.  A path is a     *)
(* non-empty string, which is all that validation asks of it.              *)

str_apit == <<"/", "a", "p", "i", "t">>
\* /t has the key /api/t, and /apit, which begins with /api, has the key /apit
KeyedPaths == {str_route_t, str_apit}
KeyedPayloads ==
    {[method |-> c.method, path |-> p, table |-> c.table, action |-> c.action,
      fieldMapping |-> c.fieldMapping, where |-> c.where] :
        c \in {e \in EndpointConfigs : e.method \in {"GET", "POST"}}, p \in KeyedPaths}

NextKeyed ==
    \/ \E payload \in KeyedPayloads : UpsertEndpoint(payload, NoFault)
    \/ \E path \in KeyedPaths, method \in {"GET", "POST"} :
           DeleteEndpoint(path, method, NoFault)
SpecKeyed == Init /\ [][NextKeyed]_vars

\* C21: two endpoint paths with different manifest keys have different route
\* files, and after endpoint calls that all reported ok the route file of
\* every key of the manifest exports exactly the methods of that key's group
C21_DistinctKeysDistinctFiles ==
    /\ \A key, other \in hist.epKeys :
           key # other => routeFilePath(key) # routeFilePath(other)
    /\ (last.op \in {"upsertEndpoint", "deleteEndpoint"} /\ hist.epAllOk) =>
           LET manifest == readEndpointManifest(fs)
           IN  \A key \in Range(ObjKeys(manifest)) :
                   /\ HasFile(fs, routeFilePath(key))
                   /\ [i \in 1..Len(fs.files[routeFilePath(key)].handlers) |->
                          fs.files[routeFilePath(key)].handlers[i].method]
                      = ObjKeys(ObjGet(manifest, key))


---------------------------------------------------------------------------
(* Templates and the page of their route, upserted one call at a time,     *)
(* every I/O call succeeding.  The route is spelled /t or t.               *)

\* registry.ts getTemplatesForRoute: registry[routePath] ?? []
getTemplatesForRoute(tree, routePath) ==
    LET registry == tree.files[registryPath].groups
    IN  IF ObjHas(registry, routePath) THEN ObjGet(registry, routePath) ELSE <<>>

PageSpellings == {str_route_t, str_t_bare}
PagedTemplates ==
    {TemplatePayload(templateId, routePath, <<InputComponent(str_name)>>) :
        templateId \in {str_a, str_b}, routePath \in PageSpellings}
PagedRoutes ==
    {[routeId |-> str_a, path |-> path, pageName |-> pageName, dynamic |-> FALSE] :
        path \in PageSpellings, pageName \in {str_list, str_more}}

NextPages ==
    \/ \E payload \in PagedTemplates : UpsertTemplate(payload, <<>>, NoFault)
    \/ \E payload \in PagedRoutes : UpsertRoute(payload)
SpecPages == Init /\ [][NextPages]_vars

Listed(templates, templateId) ==
    \E i \in 1..Len(templates) : templates[i].templateId = templateId
\* the page of the route of a template
PageOf(routePath) == pathJoin(routeDir(normalizeRoutePath(routePath)), <<str_page_tsx>>)

\* C22: once a template is upserted with routePath R, the registry returns
\* it for the normalized form of R, which is the key that the page of route
\* R holds for its lookup
C22_RegistryKeyIsLookupKey ==
    (last.op \in {"upsertTemplate", "upsertRoute"} /\ HasFile(fs, registryPath)) =>
        LET entries == ObjValues(readTemplateManifest(fs).templates)
        IN  \A i \in 1..Len(entries) :
                /\ Listed(getTemplatesForRoute(fs, normalizeRoutePath(entries[i].routePath)),
                          entries[i].templateId)
                /\ HasFile(fs, PageOf(entries[i].routePath)) =>
                       Listed(getTemplatesForRoute(fs,
                                  fs.files[PageOf(entries[i].routePath)].routePath),
                              entries[i].templateId)


---------------------------------------------------------------------------
(* A route and a route below it, /t and /t/x, upserted and deleted one     *)
(* call at a time while time passes, every I/O call succeeding.            *)

str_route_t_x == <<"/", "t", "/", "x">>
NestedPaths == {str_route_t, str_route_t_x}
NestedRoutes ==
    {[routeId |-> str_a, path |-> path, pageName |-> str_list, dynamic |-> FALSE] :
        path \in NestedPaths}

NextNested ==
    \/ \E payload \in NestedRoutes : UpsertRoute(payload)
    \/ \E routePath \in NestedPaths : DeleteRoute(routePath)
    \/ Tick
SpecNested == Init /\ [][NextNested]_vars

\* C23: after route calls that reported ok, every path of the route manifest
\* has its page in its route directory, and a deleted path has no entry in
\* the manifest: the delete of one route takes no page of another route that
\* is still in the manifest
C23_LiveRoutesKeepPages ==
    (last.op \in {"upsertRoute", "deleteRoute"} /\ last.ok) =>
        /\ \A key \in RouteKeys : HasFile(fs, pathJoin(routeDir(key), <<str_page_tsx>>))
        /\ last.op = "deleteRoute" => normalizeRoutePath(last.arg) \notin RouteKeys


---------------------------------------------------------------------------
(* Concurrent upserts of different keys of one manifest: templates a and b *)
(* of one route, and the methods GET and POST of one endpoint path.  Every *)
(* I/O call succeeds; a call gives way to the other calls at each await.   *)

\* the awaits of upsertEndpoint, those of writeRouteFile included
EndpointAwaits == <<"readManifest", "writeManifest", "ensureDir", "writeTextFile">>

KeyedTemplates ==
    {TemplatePayload(templateId, str_route_t, <<InputComponent(str_name)>>) :
        templateId \in {str_a, str_b}}
KeyedEndpoints == {payload \in KeyedPayloads : payload.path = str_route_t}

\* manifest[pathKey] = manifest[pathKey] ?? {}; manifest[pathKey][method] = payload
withEndpoint(manifest, payload) ==
    LET pathKey == normalizeApiPath(payload.path)
    IN  ObjSet(manifest, pathKey,
               ObjSet(IF ObjHas(manifest, pathKey) THEN ObjGet(manifest, pathKey)
                      ELSE <<>>,
                      payload.method, payload))

\* what the call does from the await it is at to its next one
awaitedEndpoint(call, m) ==
    LET pathKey == normalizeApiPath(call.payload.path)
    IN  CASE call.at = "readManifest" -> Indexed(m, endpointManifestPath)
          [] call.at = "writeManifest" -> writeEndpointManifest(m, call.manifest)
          [] call.at = "ensureDir" -> ensureDir(m, pathDirname(routeFilePath(pathKey)))
          [] call.at = "writeTextFile" ->
                 writeTextFile(m, routeFilePath(pathKey),
                               buildRouteFile(pathKey, ObjGet(call.manifest, pathKey)))

EndpointAwaitAfter(at) ==
    EndpointAwaits[1 + CHOOSE n \in 1..Len(EndpointAwaits) : EndpointAwaits[n] = at]

ResumedEndpoint(call, m) ==
    IF Failed(m)
    THEN [pc |-> "done", ok |-> FALSE, payload |-> call.payload]
    ELSE IF call.at = "writeTextFile"
    THEN [pc |-> "done", ok |-> TRUE, payload |-> call.payload]
    ELSE [call EXCEPT
             !.at = EndpointAwaitAfter(@),
             !.manifest = IF call.at = "readManifest"
                          THEN withEndpoint(readEndpointManifest(m.fs), call.payload)
                          ELSE @]

CallUpsertEndpoint(caller, payload) ==
    /\ inflight[caller] = Idle
    /\ inflight' = [inflight EXCEPT ![caller] =
                       [pc |-> "upserting", at |-> "readManifest", payload |-> payload,
                        manifest |-> <<>>]]
    /\ UNCHANGED <<fs, storage, clock, last, hist>>

ResumeEndpoint(caller) ==
    /\ inflight[caller].pc = "upserting"
    /\ \E m \in {awaitedEndpoint(inflight[caller], Start(NoFault))} :
           /\ fs' = m.fs
           /\ storage' = m.storage
           /\ inflight' = [inflight EXCEPT ![caller] = ResumedEndpoint(@, m)]
    /\ UNCHANGED <<clock, last, hist>>

NextRaceKeys ==
    \/ \E caller \in Callers, payload \in KeyedTemplates :
           CallUpsertTemplate(caller, payload)
    \/ \E caller \in Callers : Resume(caller)
    \/ \E caller \in Callers, payload \in KeyedEndpoints :
           CallUpsertEndpoint(caller, payload)
    \/ \E caller \in Callers : ResumeEndpoint(caller)
SpecRaceKeys == Init /\ [][NextRaceKeys]_vars

IsTemplateCall(call) == "templateId" \in DOMAIN call.payload
\* the manifest has the key of the call and the generated artifact covers it
Covered(call) ==
    IF IsTemplateCall(call)
    THEN /\ ObjHas(readTemplateManifest(fs).templates, call.payload.templateId)
         /\ Listed(getTemplatesForRoute(fs, call.payload.routePath),
                   call.payload.templateId)
    ELSE LET pathKey == normalizeApiPath(call.payload.path)
             manifest == readEndpointManifest(fs)
             handlers == fs.files[routeFilePath(pathKey)].handlers
         IN  /\ ObjHas(manifest, pathKey)
             /\ ObjHas(ObjGet(manifest, pathKey), call.payload.method)
             /\ \E i \in 1..Len(handlers) : handlers[i].method = call.payload.method

\* C24: when concurrent upserts of different keys of one manifest (methods
\* of one endpoint path, or templateIds) have all reported ok, the manifest
\* holds the entry of every one of them and the generated artifact (the route
\* file of the path, the template registry) covers every one of them
C24_ConcurrentKeysAllKept ==
    AllReturnedOk => \A caller \in Callers : Covered(inflight[caller])


---------------------------------------------------------------------------
(* Where the template operations write and remove files.                   *)

\* the paths the last call wrote a file to or removed
Touched ==
    {last.trace[i].path :
        i \in {j \in 1..Len(last.trace) :
                  last.trace[j].op \in {"writeTextFile", "removeFile"}}}

\* C25: the artifact path of a templateId lies inside the generated
\* templates directory; upsertTemplate writes files only there and in the
\* route directory of its routePath, and deleteTemplate writes and removes
\* files only there
C25_TemplateFilesStayInside ==
    /\ last.op = "upsertTemplate" =>
           /\ IsPrefix(templatesDir, templateFilePath(last.arg.templateId))
           /\ \A p \in Touched :
                  IsPrefix(templatesDir, p) \/ IsPrefix(templateRouteDir(last.arg), p)
    /\ last.op = "deleteTemplate" =>
           /\ IsPrefix(templatesDir, templateFilePath(last.arg))
           /\ \A p \in Touched : IsPrefix(templatesDir, p)

====
